---------------------------- MODULE Spec2Model ----------------------------
(* A model of the stream parser of sql-chatbot (ContentParser, lib/global-store.ts), *)
(* of the stream drivers that call it (lib/api.ts) and of the execution ledger kept  *)
(* by the chat component (components/chatbot.tsx).                                   *)
(*                                                                                   *)
(* Text is modelled as a sequence of atoms. An atom is an indivisible piece of text  *)
(* (a punctuation character, a word, a keyword); concatenating texts is              *)
(* concatenating their sequences. No atom of the alphabets used below is a proper    *)
(* prefix of, or straddles, the literals the code tests for.                         *)
EXTENDS Integers, Sequences, FiniteSets, TLC

VARIABLES
    parser,    \* the fields of the ContentParser instance in use
    ret,       \* the value returned by the last parseChunk call
    chunk,     \* the rawChunk argument of the last parseChunk call
    ledger,    \* the sqlExecutions state of the chat component
    clock,     \* Date.now()
    idSeq,     \* how many random ids were drawn so far
    calls,     \* how many parseChunk calls were made
    stream,    \* the stream being read by a driver, if any
    inner,     \* the inner stream being delivered, as its blocks
    pending,   \* the lines of the inner stream that were not delivered yet
    probe,     \* the candidate string handed to isSqlQuery
    verdict,   \* what isSqlQuery returned for probe
    sqlExecutionsRef,    \* sqlExecutionsRef.current of the chat component
    streamingMessageId,  \* the streamingMessageId state of the chat component
    requests   \* the target ids of the resume streams that were requested, in order

vars ==
    <<parser, ret, chunk, ledger, clock, idSeq, calls, stream, inner, pending, probe, verdict,
      sqlExecutionsRef, streamingMessageId, requests>>

\* what the chat component holds beside its ledger
component == <<sqlExecutionsRef, streamingMessageId, requests>>

-----------------------------------------------------------------------------
(* Text *)

Q == "\""
BS == "\\"
NL == "\n"
TAB == "\t"
SP == " "

IsWs(a) == a \in {SP, TAB, NL, "\r"}

\* how many atoms at the start (at the end) of s are white space
LeadingWs(s) ==
    CHOOSE k \in 0..Len(s) :
        /\ \A x \in 1..k : IsWs(s[x])
        /\ (k = Len(s) \/ ~IsWs(s[k + 1]))

TrailingWs(s) ==
    CHOOSE k \in 0..Len(s) :
        /\ \A x \in 1..k : IsWs(s[Len(s) + 1 - x])
        /\ (k = Len(s) \/ ~IsWs(s[Len(s) - k]))

TrimStart(s) == SubSeq(s, LeadingWs(s) + 1, Len(s))

TrimEnd(s) == SubSeq(s, 1, Len(s) - TrailingWs(s))

Trim(s) == TrimEnd(TrimStart(s))

StartsWith(s, pre) ==
    /\ Len(s) >= Len(pre)
    /\ SubSeq(s, 1, Len(pre)) = pre

EndsWith(s, suf) ==
    /\ Len(s) >= Len(suf)
    /\ SubSeq(s, Len(s) - Len(suf) + 1, Len(s)) = suf

Includes(s, part) ==
    \E i \in 1..(Len(s) - Len(part) + 1) : SubSeq(s, i, i + Len(part) - 1) = part

Substring(s, n) == SubSeq(s, n + 1, Len(s))

\* s.split(sep) for a one-atom separator: the pieces between the separators,
\* one more than there are separators.
Split(s, sep) ==
    LET seps == {i \in 1..Len(s) : s[i] = sep}
        n == Cardinality(seps) + 1
        \* the position of the m-th separator; 0 and Len(s) + 1 stand for the two ends
        bound(m) ==
            IF m = 0 THEN 0
            ELSE IF m = n THEN Len(s) + 1
            ELSE CHOOSE i \in seps : Cardinality({j \in seps : j < i}) = m - 1
    IN  [m \in 1..n |-> SubSeq(s, bound(m - 1) + 1, bound(m) - 1)]

\* the concatenation of a sequence of texts
RECURSIVE Join(_)
Join(ss) ==
    IF Len(ss) = 0 THEN <<>>
    ELSE IF Len(ss) = 1 THEN ss[1]
    ELSE LET h == Len(ss) \div 2
         IN  Join(SubSeq(ss, 1, h)) \o Join(SubSeq(ss, h + 1, Len(ss)))

\* a slice that keeps every element
SliceAll(s, n) == s

\* s.slice(0, n)
Slice(s, n) == SubSeq(s, 1, IF Len(s) < n THEN Len(s) ELSE n)

\* toUpperCase, atom by atom: the lower-case words of the alphabets below.
UpperAtom(a) ==
    CASE a = "select" -> "SELECT"
      [] a = "with" -> "WITH"
      [] a = "x" -> "X"
      [] a = "hello" -> "HELLO"
      [] a = "t" -> "T"
      [] a = "from" -> "FROM"
      [] OTHER -> a

ToUpperCase(s) == [i \in 1..Len(s) |-> UpperAtom(s[i])]

-----------------------------------------------------------------------------
(* isSqlQuery *)

sqlKeywords ==
    {"SELECT", "INSERT", "UPDATE", "DELETE", "CREATE", "ALTER", "DROP",
     "DECLARE", "WITH", "MERGE", "EXEC", "EXECUTE", "CALL"}

ScanLines == 10

\* trimmedLine.startsWith(keyword + ' ') || trimmedLine === keyword
startsWithSql(trimmedLine) ==
    \E keyword \in sqlKeywords :
        \/ StartsWith(trimmedLine, <<keyword, SP>>)
        \/ trimmedLine = <<keyword>>

\* a line the loop passes over: empty after trim, or a comment
skippedLine(trimmedLine) ==
    \/ trimmedLine = <<>>
    \/ StartsWith(trimmedLine, <<"--">>)
    \/ StartsWith(trimmedLine, <<"/*">>)

isSqlQuery(query) ==
    LET scan(lines) ==
            \E i \in 1..Len(lines) :
                /\ ~skippedLine(Trim(lines[i]))
                /\ startsWithSql(Trim(lines[i]))
    IN  scan(Slice(Split(Trim(ToUpperCase(query)), NL), ScanLines))

-----------------------------------------------------------------------------
(* JSON values, JSON.parse and JSON.stringify *)

\* A JavaScript value: t is its kind, s the atoms of a string (or the one atom of
\* a number or boolean), ks and items the keys and the values of an object, items
\* the elements of an array.
JUndef == [t |-> "undef", s |-> <<>>, ks |-> <<>>, items |-> <<>>]
JNull == [t |-> "null", s |-> <<>>, ks |-> <<>>, items |-> <<>>]
JStr(str) == [t |-> "str", s |-> str, ks |-> <<>>, items |-> <<>>]
JNum(a) == [t |-> "num", s |-> <<a>>, ks |-> <<>>, items |-> <<>>]
JBool(a) == [t |-> "bool", s |-> <<a>>, ks |-> <<>>, items |-> <<>>]
JArr(elems) == [t |-> "arr", s |-> <<>>, ks |-> <<>>, items |-> elems]
JObj(keys, vals) == [t |-> "obj", s |-> <<>>, ks |-> keys, items |-> vals]

NumAtoms == {"0", "1", "2"}

\* ToBoolean
Truthy(v) ==
    CASE v.t = "str" -> v.s # <<>>
      [] v.t = "num" -> v.s # <<"0">>
      [] v.t = "bool" -> v.s = <<"true">>
      [] v.t \in {"obj", "arr"} -> TRUE
      [] OTHER -> FALSE

\* a || b that gives b whatever a is
secondOperand(a, b) == b

\* a || b
Or(a, b) == IF Truthy(a) THEN a ELSE b

\* v[k] for a value that is not null or undefined; a key given twice keeps its
\* last value, as JSON.parse does
Get(v, k) ==
    IF v.t = "obj" /\ \E i \in 1..Len(v.ks) : v.ks[i] = k
    THEN v.items[CHOOSE i \in 1..Len(v.ks) :
                    /\ v.ks[i] = k
                    /\ \A j \in (i + 1)..Len(v.ks) : v.ks[j] # k]
    ELSE JUndef

\* reading a property of null or undefined throws a TypeError
Throws(v) == v.t \in {"null", "undef"}

RECURSIVE SkipWs(_, _)
SkipWs(s, i) == IF i <= Len(s) /\ IsWs(s[i]) THEN SkipWs(s, i + 1) ELSE i

ParseFail == [ok |-> FALSE, val |-> JUndef, next |-> 0]

\* how many backslashes stand immediately before position k, not going below lo
BsRun(s, lo, k) ==
    CHOOSE r \in 0..(k - lo) :
        /\ \A x \in 1..r : s[k - x] = BS
        /\ (r = k - lo \/ s[k - r - 1] # BS)

\* the atom at k follows the backslash of an escape
Escaped(s, lo, k) == BsRun(s, lo, k) % 2 = 1

UnescapeAtom(a) ==
    CASE a = "n" -> NL
      [] a = "t" -> TAB
      [] OTHER -> a

\* the characters of a string literal from position i (after the opening quote)
ParseChars(s, i) ==
    LET closes(j) == s[j] = Q /\ ~Escaped(s, i, j)
        piece(k) ==
            IF Escaped(s, i, k) THEN <<UnescapeAtom(s[k])>>
            ELSE IF s[k] = BS THEN <<>>
            ELSE <<s[k]>>
        legal(k) ==
            IF Escaped(s, i, k) THEN s[k] \in {Q, BS, "/", "n", "t"}
            ELSE s[k] \notin {NL, TAB, "\r"}
        \* end is the position of the closing quote, Len(s) + 1 if there is none
        upTo(end) ==
            IF end <= Len(s) /\ \A k \in i..(end - 1) : legal(k)
            THEN [ok |-> TRUE,
                  str |-> Join([k \in 1..(end - i) |-> piece(i + k - 1)]),
                  next |-> end + 1]
            ELSE [ok |-> FALSE, str |-> <<>>, next |-> 0]
    IN  upTo(CHOOSE j \in i..(Len(s) + 1) :
                /\ j = Len(s) + 1 \/ closes(j)
                /\ \A x \in i..(j - 1) : ~closes(x))

RECURSIVE ParseValue(_, _), ParseMembers(_, _, _, _), ParseElems(_, _, _)
ParseValue(s, i0) ==
    LET string(r) ==
            IF r.ok THEN [ok |-> TRUE, val |-> JStr(r.str), next |-> r.next] ELSE ParseFail
        object(j) ==
            IF j <= Len(s) /\ s[j] = "}"
            THEN [ok |-> TRUE, val |-> JObj(<<>>, <<>>), next |-> j + 1]
            ELSE ParseMembers(s, j, <<>>, <<>>)
        array(j) ==
            IF j <= Len(s) /\ s[j] = "]"
            THEN [ok |-> TRUE, val |-> JArr(<<>>), next |-> j + 1]
            ELSE ParseElems(s, j, <<>>)
        value(i) ==
            IF i > Len(s) THEN ParseFail
            ELSE IF s[i] = Q THEN string(ParseChars(s, i + 1))
            ELSE IF s[i] \in NumAtoms THEN [ok |-> TRUE, val |-> JNum(s[i]), next |-> i + 1]
            ELSE IF s[i] = "null" THEN [ok |-> TRUE, val |-> JNull, next |-> i + 1]
            ELSE IF s[i] \in {"true", "false"}
            THEN [ok |-> TRUE, val |-> JBool(s[i]), next |-> i + 1]
            ELSE IF s[i] = "{" THEN object(SkipWs(s, i + 1))
            ELSE IF s[i] = "[" THEN array(SkipWs(s, i + 1))
            ELSE ParseFail
    IN  value(SkipWs(s, i0))

\* "key": value pairs up to the closing brace
ParseMembers(s, i0, keys, vals) ==
    LET close(e, keys2, vals2) ==
            IF e > Len(s) THEN ParseFail
            ELSE IF s[e] = "}"
            THEN [ok |-> TRUE, val |-> JObj(keys2, vals2), next |-> e + 1]
            ELSE IF s[e] = ","
            THEN ParseMembers(s, e + 1, keys2, vals2)
            ELSE ParseFail
        after(v, keys2) ==
            IF ~v.ok THEN ParseFail
            ELSE close(SkipWs(s, v.next), keys2, Append(vals, v.val))
        colon(c, keys2) ==
            IF c > Len(s) \/ s[c] # ":" THEN ParseFail
            ELSE after(ParseValue(s, c + 1), keys2)
        key(k) ==
            IF ~k.ok THEN ParseFail
            ELSE colon(SkipWs(s, k.next), Append(keys, k.str))
        member(i) ==
            IF i > Len(s) \/ s[i] # Q THEN ParseFail
            ELSE key(ParseChars(s, i + 1))
    IN  member(SkipWs(s, i0))

\* values up to the closing bracket
ParseElems(s, i0, elems) ==
    LET close(e, elems2) ==
            IF e > Len(s) THEN ParseFail
            ELSE IF s[e] = "]"
            THEN [ok |-> TRUE, val |-> JArr(elems2), next |-> e + 1]
            ELSE IF s[e] = ","
            THEN ParseElems(s, e + 1, elems2)
            ELSE ParseFail
        after(v) ==
            IF ~v.ok THEN ParseFail
            ELSE close(SkipWs(s, v.next), Append(elems, v.val))
    IN  after(ParseValue(s, i0))

\* JSON.parse(text): ok is false where it throws a SyntaxError
JsonParse(text) ==
    LET whole(r) ==
            IF r.ok /\ SkipWs(text, r.next) > Len(text)
            THEN [ok |-> TRUE, val |-> r.val]
            ELSE [ok |-> FALSE, val |-> JUndef]
    IN  whole(ParseValue(text, 1))

EscapeAtom(a) ==
    CASE a = Q -> <<BS, Q>>
      [] a = BS -> <<BS, BS>>
      [] a = NL -> <<BS, "n">>
      [] a = TAB -> <<BS, "t">>
      [] OTHER -> <<a>>

\* the characters of a string as JSON.stringify escapes them
Escape(str) == Join([k \in 1..Len(str) |-> EscapeAtom(str[k])])

\* JSON.stringify of a string
Quote(str) == <<Q>> \o Escape(str) \o <<Q>>

\* a value appended to a string with +=
RECURSIVE CoerceToString(_), JoinElems(_)
CoerceToString(v) ==
    CASE v.t \in {"str", "num", "bool"} -> v.s
      [] v.t = "null" -> <<"null">>
      [] v.t = "obj" -> <<"[object Object]">>
      [] v.t = "arr" -> JoinElems(v.items)
      [] OTHER -> <<"undefined">>

\* Array.prototype.join(","): null and undefined elements give the empty string
JoinElems(items) ==
    IF items = <<>> THEN <<>>
    ELSE (IF Head(items).t \in {"null", "undef"} THEN <<>> ELSE CoerceToString(Head(items)))
         \o (IF Len(items) > 1 THEN <<",">> ELSE <<>>)
         \o JoinElems(Tail(items))

-----------------------------------------------------------------------------
(* ContentParser: its fields *)

\* a property an object does not have (it reads as undefined)
JAbsent == [t |-> "absent", s |-> <<>>, ks |-> <<>>, items |-> <<>>]

\* null, for an id and for the open-block reference
NoId == <<>>
NoBlock == 0
NoType == "null"

\* interruptedQuery === null
NoQuery == [isNull |-> TRUE, id |-> NoId, query |-> <<>>, originalQuery |-> <<>>,
            purpose |-> JUndef]

NewParser ==
    [contentBlocks |-> <<>>,
     currentBlock |-> NoBlock,          \* the position in contentBlocks of the object referred to
     blockCounter |-> 0,
     thinkingBlocks |-> <<>>,
     textContent |-> <<>>,
     currentThinkingContent |-> <<>>,
     currentBlockType |-> NoType,
     currentToolInput |-> <<>>,
     currentToolOutput |-> <<>>,
     sqlExecutions |-> <<>>,
     currentSqlId |-> NoId,
     justEndedBlock |-> FALSE,
     isStreamingThinking |-> FALSE,
     isInterrupted |-> FALSE,
     interruptedQuery |-> NoQuery,
     resumeTargetSqlId |-> NoId]

\* the generic labels
QueryExecution == <<"Query execution">>
InterruptedQueryLabel == <<"Interrupted Query">>
ParseFailure == <<"Failed to parse SQL output response">>

setResumeTargetSqlId(p, sqlId) == [p EXCEPT !.resumeTargetSqlId = sqlId]

reset(p) ==
    [p EXCEPT !.contentBlocks = <<>>,
              !.currentBlock = NoBlock,
              !.blockCounter = 0,
              !.thinkingBlocks = <<>>,
              !.currentThinkingContent = <<>>,
              !.textContent = <<>>,
              !.currentBlockType = NoType,
              !.currentToolInput = <<>>,
              !.currentToolOutput = <<>>,
              !.sqlExecutions = <<>>,
              !.currentSqlId = NoId,
              !.justEndedBlock = FALSE,
              !.isStreamingThinking = FALSE,
              !.isInterrupted = FALSE,
              !.interruptedQuery = NoQuery]

\* a block made without counting it
uncountedBlock(p, type, now) ==
    [p EXCEPT !.contentBlocks =
                  Append(p.contentBlocks,
                         [id |-> <<type, "-", ToString(p.blockCounter + 1)>>,
                          type |-> type, content |-> <<>>, timestamp |-> now]),
              !.currentBlock = Len(p.contentBlocks) + 1]

\* a block put in front of the list
newestBlockFirst(p, type, now) ==
    [p EXCEPT !.blockCounter = p.blockCounter + 1,
              !.contentBlocks =
                  <<[id |-> <<type, "-", ToString(p.blockCounter + 1)>>,
                     type |-> type, content |-> <<>>, timestamp |-> now]>> \o @,
              !.currentBlock = 1]

createNewContentBlock(p, type, now) ==
    LET newBlock == [id |-> <<type, "-", ToString(p.blockCounter + 1)>>,
                     type |-> type,
                     content |-> <<>>,
                     timestamp |-> now]
    IN  [p EXCEPT !.blockCounter = p.blockCounter + 1,
                  !.contentBlocks = Append(p.contentBlocks, newBlock),
                  !.currentBlock = Len(p.contentBlocks) + 1]

-----------------------------------------------------------------------------
(* groupConsecutiveBlocks and updateLegacyFormat *)

ThinkingBlockOf(block) ==
    [id |-> block.id, content |-> block.content, timestamp |-> block.timestamp]

\* a group made of the first block of the run only
firstBlockOnly(n, group) ==
    IF group.type = "thinking"
    THEN [id |-> <<"grouped-thinking-", ToString(n + 1)>>,
          type |-> "thinking",
          text |-> <<>>,
          blocks |-> <<ThinkingBlockOf(group.blocks[1])>>,
          timestamp |-> group.startTimestamp,
          isGrouped |-> FALSE]
    ELSE [id |-> group.blocks[1].id,
          type |-> "text",
          text |-> group.blocks[1].content,
          blocks |-> <<>>,
          timestamp |-> group.startTimestamp,
          isGrouped |-> FALSE]

\* the group pushed for a run of blocks, when n groups were pushed before it
finalizeCurrentGroup(n, group) ==
    IF group.type = "thinking"
    THEN [id |-> <<"grouped-thinking-", ToString(n + 1)>>,
          type |-> "thinking",
          text |-> <<>>,
          blocks |-> [i \in 1..Len(group.blocks) |-> ThinkingBlockOf(group.blocks[i])],
          timestamp |-> group.startTimestamp,
          isGrouped |-> Len(group.blocks) > 1]
    ELSE [id |-> IF Len(group.blocks) > 1
                 THEN <<"grouped-text-", ToString(n + 1)>>
                 ELSE group.blocks[1].id,
          type |-> "text",
          text |-> Join([i \in 1..Len(group.blocks) |-> group.blocks[i].content]),
          blocks |-> <<>>,
          timestamp |-> group.startTimestamp,
          isGrouped |-> Len(group.blocks) > 1]

RECURSIVE groupLoop(_, _, _, _)
groupLoop(blocks, i, grouped, group) ==
    IF i > Len(blocks) THEN Append(grouped, finalizeCurrentGroup(Len(grouped), group))
    ELSE IF group.type # blocks[i].type
    THEN groupLoop(blocks, i + 1,
                   Append(grouped, finalizeCurrentGroup(Len(grouped), group)),
                   [type |-> blocks[i].type, blocks |-> <<blocks[i]>>,
                    startTimestamp |-> blocks[i].timestamp])
    ELSE groupLoop(blocks, i + 1, grouped,
                   [group EXCEPT !.blocks = Append(@, blocks[i]),
                                 !.startTimestamp = IF blocks[i].timestamp < @
                                                    THEN blocks[i].timestamp ELSE @])

\* a grouping that walks the list from its end
groupBackwards(blocks) ==
    IF Len(blocks) = 0 THEN <<>>
    ELSE groupLoop([i \in 1..Len(blocks) |-> blocks[Len(blocks) + 1 - i]], 2, <<>>,
                   [type |-> blocks[Len(blocks)].type,
                    blocks |-> <<blocks[Len(blocks)]>>,
                    startTimestamp |-> blocks[Len(blocks)].timestamp])

groupConsecutiveBlocks(blocks) ==
    IF Len(blocks) = 0 THEN <<>>
    ELSE groupLoop(blocks, 2, <<>>,
                   [type |-> blocks[1].type, blocks |-> <<blocks[1]>>,
                    startTimestamp |-> blocks[1].timestamp])

\* groupedBlocks.filter(block => block.type === type)
SelectType(groups, type) == SelectSeq(groups, LAMBDA g : g.type = type)

\* legacy views whose text is that of the last narrative group only
lastGroupText(p) ==
    LET legacy(thinkingGroups, textGroups) ==
            [p EXCEPT !.thinkingBlocks =
                          Join([i \in 1..Len(thinkingGroups) |-> thinkingGroups[i].blocks]),
                      !.textContent =
                          IF Len(textGroups) = 0 THEN <<>>
                          ELSE textGroups[Len(textGroups)].text]
        select(groupedBlocks) ==
            legacy(SelectType(groupedBlocks, "thinking"), SelectType(groupedBlocks, "text"))
    IN  select(groupConsecutiveBlocks(p.contentBlocks))

updateLegacyFormat(p) ==
    LET legacy(thinkingGroups, textGroups) ==
            [p EXCEPT !.thinkingBlocks =
                          Join([i \in 1..Len(thinkingGroups) |-> thinkingGroups[i].blocks]),
                      !.textContent =
                          Join([i \in 1..Len(textGroups) |-> textGroups[i].text])]
        select(groupedBlocks) ==
            legacy(SelectType(groupedBlocks, "thinking"), SelectType(groupedBlocks, "text"))
    IN  select(groupConsecutiveBlocks(p.contentBlocks))

-----------------------------------------------------------------------------
(* processSqlInput and processSqlOutput *)

\* a SqlExecution object with exactly the given properties (JAbsent: not a property)
SqlExecution(id, purpose, query, results, timestamp, status, error, threadId, originalPurpose) ==
    [id |-> id, purpose |-> purpose, query |-> query, results |-> results,
     timestamp |-> timestamp, status |-> status, error |-> error,
     threadId |-> threadId, originalPurpose |-> originalPurpose]

\* a search that finds nothing
notFound(list, id) == 0

\* findIndex(sql => sql.id === id): 0 stands for -1
findIndex(list, id) ==
    IF \E i \in 1..Len(list) : list[i].id = id
    THEN CHOOSE i \in 1..Len(list) :
            /\ list[i].id = id
            /\ \A j \in 1..(i - 1) : list[j].id # id
    ELSE 0

\* a close that records whatever was gathered
recordUnchecked(p, now) ==
    IF p.currentSqlId = NoId \/ p.currentToolInput = <<>> THEN p
    ELSE [p EXCEPT !.sqlExecutions = Append(@,
              SqlExecution(p.currentSqlId, JStr(QueryExecution), p.currentToolInput,
                           JAbsent, now, "executing", JAbsent, JAbsent, JAbsent))]

processSqlInput(p, now) ==
    LET record(toolInput, query) ==
            IF /\ ~Throws(toolInput)
               /\ Truthy(query)
               /\ query.t = "str"          \* toUpperCase of anything else throws
               /\ isSqlQuery(query.s)
            THEN [p EXCEPT !.sqlExecutions = Append(@,
                    SqlExecution(p.currentSqlId,
                                 Or(Get(toolInput, <<"purpose">>), JStr(QueryExecution)),
                                 query.s, JAbsent, now, "executing", JAbsent, JAbsent,
                                 JAbsent))]
            ELSE p
        read(parsed) ==
            IF parsed.ok THEN record(parsed.val, Get(parsed.val, <<"query">>)) ELSE p
    IN  IF p.currentSqlId = NoId \/ p.currentToolInput = <<>> THEN p
        ELSE read(JsonParse(p.currentToolInput))

\* the atoms made of word characters only; those of NumAtoms start with a digit.
\* Of these only n and t begin with the letter n or t after a backslash in the
\* texts below.
WordAtoms ==
    {"results", "error", "message", "a", "b", "x", "n", "t", "id", "value", "query",
     "purpose", "q1", "q2", "list", "bad", "column", "hello", "SELECT", "select",
     "FROM", "from", "WITH", "with", "null", "true", "false"} \cup NumAtoms

\* s.replace(/ab/g, r) for two atoms a, b
ReplacePair(s, a, b, r) ==
    LET match(i) == i >= 1 /\ i + 1 <= Len(s) /\ s[i] = a /\ s[i + 1] = b
        piece(i) ==
            IF match(i) THEN <<r>>
            ELSE IF match(i - 1) THEN <<>>
            ELSE <<s[i]>>
    IN  Join([i \in 1..Len(s) |-> piece(i)])

\* the last position of the run of word atoms that starts at i
RECURSIVE WordRunEnd(_, _)
WordRunEnd(s, i) ==
    IF i + 1 <= Len(s) /\ s[i + 1] \in WordAtoms THEN WordRunEnd(s, i + 1) ELSE i

\* s.replace(/\\(?=[A-Za-z_]\w*")/g, '"')
RepairIdentifier(s) ==
    [i \in 1..Len(s) |->
        IF /\ s[i] = BS
           /\ i + 1 <= Len(s)
           /\ s[i + 1] \in WordAtoms \ NumAtoms
           /\ WordRunEnd(s, i + 1) + 1 <= Len(s)
           /\ s[WordRunEnd(s, i + 1) + 1] = Q
        THEN Q ELSE s[i]]

\* the first position from i on that holds a quote or a backslash (Len(s) + 1: none)
RECURSIVE NextQuoteOrBackslash(_, _)
NextQuoteOrBackslash(s, i) ==
    IF i > Len(s) \/ s[i] \in {Q, BS} THEN i ELSE NextQuoteOrBackslash(s, i + 1)

\* s.replace(/"([^"\\]*?)\\\s*:/g, '"$1":')
RECURSIVE RepairKey(_, _)
RepairKey(s, i) ==
    LET key(j, k) ==
            IF s[i] = Q /\ j <= Len(s) /\ s[j] = BS /\ k <= Len(s) /\ s[k] = ":"
            THEN <<Q>> \o SubSeq(s, i + 1, j - 1) \o <<Q, ":">> \o RepairKey(s, k + 1)
            ELSE <<s[i]>> \o RepairKey(s, i + 1)
        from(j) == key(j, SkipWs(s, j + 1))
    IN  IF i > Len(s) THEN <<>>
        ELSE from(NextQuoteOrBackslash(s, i + 1))

StripLeadingQuote(s) == IF s # <<>> /\ Head(s) = Q THEN Tail(s) ELSE s
StripTrailingQuote(s) == IF s # <<>> /\ s[Len(s)] = Q THEN SubSeq(s, 1, Len(s) - 1) ELSE s

\* the text processSqlOutput hands to JSON.parse
repairToolOutput(raw) ==
    RepairKey(
        RepairIdentifier(
            ReplacePair(
                ReplacePair(
                    ReplacePair(
                        ReplacePair(StripTrailingQuote(StripLeadingQuote(Trim(raw))),
                                    BS, Q, Q),
                        BS, Q, Q),
                    BS, "n", NL),
                BS, "t", TAB)),
        1)

\* the results field alone, with no fallback to the whole payload
resultsFieldOnly(toolOutput) == Get(toolOutput, <<"results">>)

\* results: toolOutput.results || toolOutput
outputResults(toolOutput) == Or(Get(toolOutput, <<"results">>), toolOutput)

\* a status that disregards the error field
alwaysCompleted(toolOutput) == "completed"

\* status: toolOutput.error ? 'error' : 'completed'
outputStatus(toolOutput) ==
    IF Truthy(Get(toolOutput, <<"error">>)) THEN "error" ELSE "completed"

\* a closing tool-output block that is dropped
dropOutput(p, now) == p

processSqlOutput(p, now) ==
    LET update(sqlIndex, results, status, error) ==
            IF sqlIndex # 0
            THEN [p EXCEPT !.sqlExecutions[sqlIndex] =
                     IF results = JAbsent
                     THEN [@ EXCEPT !.status = status, !.error = error]
                     ELSE [@ EXCEPT !.results = results, !.status = status,
                                    !.error = error]]
            ELSE [p EXCEPT !.sqlExecutions = Append(@,
                     SqlExecution(p.currentSqlId, JStr(QueryExecution), <<>>, results, now,
                                  status, error, JAbsent, JAbsent))]
        write(sqlIndex, ok, toolOutput) ==
            IF ok /\ ~Throws(toolOutput)
            THEN update(sqlIndex, outputResults(toolOutput), outputStatus(toolOutput),
                        Get(toolOutput, <<"message">>))
            ELSE update(sqlIndex, JAbsent, "error", JStr(ParseFailure))
        read(parsed) ==
            write(findIndex(p.sqlExecutions, p.currentSqlId), parsed.ok, parsed.val)
    IN  IF p.currentSqlId = NoId \/ p.currentToolOutput = <<>> THEN p
        ELSE read(JsonParse(repairToolOutput(p.currentToolOutput)))

-----------------------------------------------------------------------------
(* The lines of the two protocols *)

DataPrefix == <<"data: ">>
Event(name) == <<"event: ", name>>
Data(payload) == DataPrefix \o payload
\* data: "thinking", data: "text", data: "tool-input", data: "tool-output"
TypeLine(name) == Data(<<Q, name, Q>>)
DoneLine == Data(<<"[", "DONE", "]">>)
InterruptEvent == Event("__interrupt__")

-----------------------------------------------------------------------------
(* handleInterrupt *)

\* a search that finds no payload line
noDataLine(lines) == 0

\* the position of the first line that starts with 'data: [' and includes '"value"'
\* (0: there is none)
interruptDataLine(lines) ==
    LET hit(i) == /\ StartsWith(Trim(lines[i]), Data(<<"[">>))
                  /\ Includes(Trim(lines[i]), <<Q, "value", Q>>)
    IN  IF \E i \in 1..Len(lines) : hit(i)
        THEN CHOOSE i \in 1..Len(lines) : hit(i) /\ \A j \in 1..(i - 1) : ~hit(j)
        ELSE 0

\* the SQL-like query of an object read from the stream: a string that passes
\* isSqlQuery. Reading it off null throws, as does isSqlQuery of a truthy value
\* that is no string; both are caught by the caller.
hasSqlQuery(obj, field) ==
    /\ ~Throws(obj)
    /\ Truthy(Get(obj, field))
    /\ Get(obj, field).t = "str"
    /\ isSqlQuery(Get(obj, field).s)

\* the interruption payload: now and now2 are the two readings of Date.now()
interruptFromPayload(p, lines, now, now2) ==
    LET record(value, id) ==
            [p EXCEPT
                !.interruptedQuery =
                    [isNull |-> FALSE,
                     id |-> CoerceToString(Or(id, JStr(<<"interrupted-", ToString(now)>>))),
                     query |-> value,
                     originalQuery |-> value,
                     purpose |-> JStr(InterruptedQueryLabel)],
                !.sqlExecutions = Append(@,
                    SqlExecution(
                        CoerceToString(Or(id, JStr(<<"interrupted-", ToString(now2)>>))),
                        JStr(InterruptedQueryLabel), value, JAbsent, now2, "interrupted",
                        JAbsent, JAbsent, JStr(InterruptedQueryLabel)))]
        first(queryData) ==
            IF hasSqlQuery(queryData, <<"value">>)
            THEN record(Get(queryData, <<"value">>).s, Get(queryData, <<"id">>))
            ELSE p
        read(parsed) ==
            IF parsed.ok /\ parsed.val.t = "arr" /\ Len(parsed.val.items) > 0
            THEN first(parsed.val.items[1])
            ELSE p
        line(at) ==
            IF at # 0 THEN read(JsonParse(Substring(Trim(lines[at]), 1))) ELSE p
    IN  line(interruptDataLine(lines))

\* the interruption read off the tool input gathered so far
interruptFromToolInput(p, now) ==
    LET record(query, purpose) ==
            [p EXCEPT
                !.interruptedQuery =
                    [isNull |-> FALSE,
                     id |-> p.currentSqlId,
                     query |-> query,
                     originalQuery |-> query,
                     purpose |-> purpose],
                !.sqlExecutions = Append(@,
                    SqlExecution(p.currentSqlId, purpose, query,
                                 JAbsent, now, "interrupted", JAbsent, JAbsent, purpose))]
        read(parsed) ==
            IF parsed.ok /\ hasSqlQuery(parsed.val, <<"query">>)
            THEN record(Get(parsed.val, <<"query">>).s,
                        Or(Get(parsed.val, <<"purpose">>), JStr(InterruptedQueryLabel)))
            ELSE p
    IN  IF /\ p.interruptedQuery.isNull
           /\ p.currentToolInput # <<>>
           /\ p.currentSqlId # NoId
        THEN read(JsonParse(p.currentToolInput))
        ELSE p

\* a handler that lets the interruption pass unnoticed
ignoreInterrupt(p, lines, now, now2) == p

handleInterrupt(p, lines, now, now2) ==
    interruptFromToolInput(
        interruptFromPayload([p EXCEPT !.isInterrupted = TRUE], lines, now, now2),
        now2)

-----------------------------------------------------------------------------
(* processSSEContent *)

\* `sql-${Date.now()}-${Math.random().toString(36).substr(2, 9)}`: the n-th random
\* draw is written n, so that two draws never give the same id
newSqlId(now, n) == <<"sql-", ToString(now), "-", ToString(n)>>

\* the open thinking block is closed: its content is the trimmed accumulated text
finalizeThinking(p) ==
    IF p.currentBlockType = "thinking" /\ p.isStreamingThinking
    THEN [p EXCEPT
            !.contentBlocks =
                IF p.currentBlock # NoBlock /\ @[p.currentBlock].type = "thinking"
                THEN [@ EXCEPT ![p.currentBlock].content = Trim(p.currentThinkingContent)]
                ELSE @,
            !.currentThinkingContent = <<>>,
            !.isStreamingThinking = FALSE]
    ELSE p

\* line === 'event: block-start'; w is the parser with the count of random draws
onBlockStart(w, nextLine, now) ==
    LET p == w.p IN
    CASE nextLine = TypeLine("thinking") ->
            [p |-> [createNewContentBlock(
                        [p EXCEPT !.currentBlockType = "thinking",
                                  !.currentThinkingContent = <<>>], "thinking", now)
                    EXCEPT !.isStreamingThinking = TRUE],
             ids |-> w.ids, skip |-> TRUE]
      [] nextLine = TypeLine("text") ->
            [p |-> createNewContentBlock([p EXCEPT !.currentBlockType = "text"],
                                         "text", now),
             ids |-> w.ids, skip |-> TRUE]
      [] nextLine = TypeLine("tool-input") ->
            [p |-> [p EXCEPT !.currentBlockType = "tool-input",
                             !.currentToolInput = <<>>,
                             !.currentSqlId = newSqlId(now, w.ids + 1)],
             ids |-> w.ids + 1, skip |-> TRUE]
      [] nextLine = TypeLine("tool-output") ->
            [p |-> [p EXCEPT !.currentBlockType = "tool-output",
                             !.currentToolOutput = <<>>],
             ids |-> w.ids, skip |-> TRUE]
      [] OTHER -> [p |-> p, ids |-> w.ids, skip |-> FALSE]

\* a closing tool-output block that binds nothing
neverBound(p) == p

\* if (!this.currentSqlId && this.resumeTargetSqlId)
\*     this.currentSqlId = this.resumeTargetSqlId
bindResumeTarget(p) ==
    IF p.currentSqlId = NoId /\ p.resumeTargetSqlId # NoId
    THEN [p EXCEPT !.currentSqlId = p.resumeTargetSqlId]
    ELSE p

\* line === 'event: block-end'
onBlockEnd(p0, now) ==
    LET p == [p0 EXCEPT !.justEndedBlock = TRUE]
        bound == bindResumeTarget(p)
        closed ==
            IF p.currentBlockType = "thinking" /\ p.isStreamingThinking
            THEN finalizeThinking(p)
            ELSE IF p.currentBlockType = "tool-input" /\ p.currentSqlId # NoId
            THEN processSqlInput(p, now)
            ELSE IF p.currentBlockType = "tool-output"
            THEN IF bound.currentSqlId # NoId THEN processSqlOutput(bound, now) ELSE bound
            ELSE p
    IN  [closed EXCEPT !.currentBlock = NoBlock, !.currentBlockType = NoType]

\* a data line whose payload is written to the first block of the list
onDataFirst(p, line) ==
    LET parsed == JsonParse(Substring(line, Len(DataPrefix)))
    IN  IF p.currentBlock # NoBlock /\ parsed.ok /\ parsed.val.t = "str"
        THEN [p EXCEPT !.contentBlocks[1].content = @ \o parsed.val.s]
        ELSE p

\* a data line whose payload is appended to the open block as it is
onDataRaw(p, line) ==
    IF p.currentBlock # NoBlock
    THEN [p EXCEPT !.contentBlocks[p.currentBlock].content =
                       @ \o Substring(line, Len(DataPrefix))]
    ELSE p

\* line.startsWith('data: ')
onData(p, line) ==
    LET \* content is what JSON.parse gave, as the string += makes of it
        block(ok, content) ==
            IF ~ok THEN p
            ELSE IF p.currentBlockType = "thinking"
            THEN [p EXCEPT
                    !.currentThinkingContent = @ \o content,
                    !.contentBlocks =
                        IF p.currentBlock # NoBlock /\ @[p.currentBlock].type = "thinking"
                        THEN [@ EXCEPT ![p.currentBlock].content =
                                            p.currentThinkingContent \o content]
                        ELSE @]
            ELSE [p EXCEPT
                    !.contentBlocks =
                        IF p.currentBlock # NoBlock /\ @[p.currentBlock].type = "text"
                        THEN [@ EXCEPT ![p.currentBlock].content = @ \o content]
                        ELSE @]
        toolInput(ok, content) ==
            [p EXCEPT !.currentToolInput = @ \o (IF ok THEN content ELSE <<>>)]
        read(dataContent, parsed) ==
            IF p.currentBlockType = "tool-input"
            THEN toolInput(parsed.ok, CoerceToString(parsed.val))
            ELSE IF p.currentBlockType = "tool-output"
            THEN [p EXCEPT !.currentToolOutput = @ \o dataContent]
            ELSE block(parsed.ok, CoerceToString(parsed.val))
        data(dataContent) == read(dataContent, JsonParse(dataContent))
    IN  IF p.justEndedBlock THEN [p EXCEPT !.justEndedBlock = FALSE]
        ELSE IF p.currentBlockType = NoType THEN p
        ELSE data(Substring(line, Len(DataPrefix)))

\* a line of a tool block that is no data line
onRawLine(p, line) ==
    LET rawContent == IF StartsWith(line, <<Q>>) /\ EndsWith(line, <<Q>>)
                      THEN SubSeq(line, 2, Len(line) - 1)
                      ELSE line
    IN  IF p.currentBlockType = "tool-input"
        THEN [p EXCEPT !.currentToolInput = @ \o rawContent]
        ELSE IF p.currentBlockType = "tool-output"
        THEN [p EXCEPT !.currentToolOutput = @ \o rawContent]
        ELSE p

\* a completion that closes the reasoning block and leaves the channel open
completeKeepsChannel(p) == finalizeThinking(p)

\* line.startsWith('event: complete')
onComplete(p) ==
    [finalizeThinking(p) EXCEPT !.currentBlock = NoBlock, !.currentBlockType = NoType]

\* one pass of the loop body for the trimmed, non-empty line; skip says that the
\* next line was consumed with it
processLine(w, line, nextLine, now) ==
    LET p == w.p
        same(q) == [p |-> q, ids |-> w.ids, skip |-> FALSE]
        complete(handled) ==
            IF StartsWith(line, Event("complete")) THEN onComplete(handled) ELSE handled
    IN  IF line = Event("block-start") THEN onBlockStart(w, nextLine, now)
        ELSE IF line = Event("block-end") THEN same(onBlockEnd(p, now))
        ELSE IF line = Event("thinking")
        THEN same(IF p.currentBlockType # "thinking"
                  THEN [createNewContentBlock(
                            [p EXCEPT !.currentBlockType = "thinking",
                                      !.currentThinkingContent = <<>>], "thinking", now)
                        EXCEPT !.isStreamingThinking = TRUE]
                  ELSE p)
        ELSE IF line = Event("text")
        THEN same(IF p.currentBlockType # "text"
                  THEN createNewContentBlock([p EXCEPT !.currentBlockType = "text"],
                                             "text", now)
                  ELSE p)
        ELSE IF line = Event("tool-input")
        THEN same([p EXCEPT !.currentBlockType = "tool-input"])
        ELSE IF line = Event("tool-output")
        THEN same([p EXCEPT !.currentBlockType = "tool-output"])
        ELSE same(complete(IF StartsWith(line, DataPrefix) THEN onData(p, line)
                           ELSE onRawLine(p, line)))

RECURSIVE processLoop(_, _, _, _)
processLoop(w, sseLines, i, now) ==
    LET step(r) ==
            processLoop([p |-> r.p, ids |-> r.ids], sseLines,
                        IF r.skip THEN i + 2 ELSE i + 1, now)
        body(line) ==
            IF line = <<>> THEN processLoop(w, sseLines, i + 1, now)
            ELSE step(processLine(w, line,
                                  IF i + 1 <= Len(sseLines) THEN Trim(sseLines[i + 1])
                                  ELSE <<"undefined">>,
                                  now))
    IN  IF i > Len(sseLines) THEN w ELSE body(Trim(sseLines[i]))

processSSEContent(w, sseContent, now) ==
    processLoop(w, Split(sseContent, NL), 1, now)

-----------------------------------------------------------------------------
(* parseChunk *)

\* a loop that an interruption line does not end
RECURSIVE chunkLoopOn(_, _, _, _, _)
chunkLoopOn(w, lines, k, now, now2) ==
    LET unwrap(parsed, content) ==
            IF parsed.ok /\ Truthy(content) /\ content.t = "str"
            THEN chunkLoopOn(processSSEContent(w, content.s, now), lines, k + 1, now, now2)
            ELSE chunkLoopOn(w, lines, k + 1, now, now2)
        envelope(parsed) == unwrap(parsed, Get(parsed.val, <<"content">>))
        body(trimmedLine) ==
            IF trimmedLine = <<>> \/ trimmedLine = DoneLine
            THEN chunkLoopOn(w, lines, k + 1, now, now2)
            ELSE IF Includes(trimmedLine, InterruptEvent)
            THEN chunkLoopOn([p |-> handleInterrupt(w.p, lines, now, now2), ids |-> w.ids],
                             lines, k + 1, now, now2)
            ELSE IF StartsWith(trimmedLine, Data(<<"{">>))
            THEN envelope(JsonParse(Substring(trimmedLine, Len(DataPrefix))))
            ELSE chunkLoopOn(w, lines, k + 1, now, now2)
    IN  IF k > Len(lines) THEN w ELSE body(Trim(lines[k]))

\* the body of the loop over the lines of rawChunk, from line k on; an
\* interruption line ends the loop
RECURSIVE chunkLoop(_, _, _, _, _)
chunkLoop(w, lines, k, now, now2) ==
    LET unwrap(parsed, content) ==
            IF /\ parsed.ok
               /\ Truthy(content)
               /\ content.t = "str"       \* split of anything else throws, and is caught
            THEN chunkLoop(processSSEContent(w, content.s, now), lines, k + 1, now, now2)
            ELSE chunkLoop(w, lines, k + 1, now, now2)
        envelope(parsed) == unwrap(parsed, Get(parsed.val, <<"content">>))
        body(trimmedLine) ==
            IF trimmedLine = <<>> \/ trimmedLine = DoneLine
            THEN chunkLoop(w, lines, k + 1, now, now2)
            ELSE IF Includes(trimmedLine, InterruptEvent)
            THEN [p |-> handleInterrupt(w.p, lines, now, now2), ids |-> w.ids]
            ELSE IF StartsWith(trimmedLine, Data(<<"{">>))
            THEN envelope(JsonParse(Substring(trimmedLine, Len(DataPrefix))))
            ELSE chunkLoop(w, lines, k + 1, now, now2)
    IN  IF k > Len(lines) THEN w ELSE body(Trim(lines[k]))

\* what parseChunk returns, and the parser it leaves
parseChunk(w, rawChunk, now, now2) ==
    LET result(p, ids) ==
            [p |-> p,
             ids |-> ids,
             ret |-> [text |-> p.textContent,
                      thinking |-> p.thinkingBlocks,
                      contentBlocks |-> p.contentBlocks,
                      groupedContentBlocks |-> groupConsecutiveBlocks(p.contentBlocks),
                      sqlExecutions |-> p.sqlExecutions,
                      hasNewSql |-> Len(p.sqlExecutions) > Len(w.p.sqlExecutions),
                      isInterrupted |-> p.isInterrupted,
                      interruptedQuery |-> p.interruptedQuery]]
        finish(after) == result(updateLegacyFormat(after.p), after.ids)
    IN  finish(chunkLoop(w, Split(rawChunk, NL), 1, now, now2))

\* nothing was returned yet
NoRet ==
    [text |-> <<>>, thinking |-> <<>>, contentBlocks |-> <<>>,
     groupedContentBlocks |-> <<>>, sqlExecutions |-> <<>>, hasNewSql |-> FALSE,
     isInterrupted |-> FALSE, interruptedQuery |-> NoQuery]

-----------------------------------------------------------------------------
(* The ledger of the chat component *)

\* obj.field where the object may lack the property
Read(v) == IF v.t = "absent" THEN JUndef ELSE v

\* {...a, ...b}.field
Spread(a, b) == IF b.t = "absent" THEN a ELSE b

\* the delta's query, empty or not
deltaQuery(existingSql, newSql) == newSql.query

\* query: newSql.query.trim() === '' ? existingSql.query : newSql.query
mergedQuery(existingSql, newSql) ==
    IF Trim(newSql.query) = <<>> THEN existingSql.query ELSE newSql.query

\* the delta's purpose, generic or not
deltaPurpose(existingSql, newSql) == Read(newSql.purpose)

\* purpose: (newSql.purpose === 'Query execution' && existingSql.purpose &&
\*           existingSql.purpose !== 'Query execution')
\*              ? existingSql.purpose : newSql.purpose
mergedPurpose(existingSql, newSql) ==
    IF /\ Read(newSql.purpose) = JStr(QueryExecution)
       /\ Truthy(Read(existingSql.purpose))
       /\ Read(existingSql.purpose) # JStr(QueryExecution)
    THEN Read(existingSql.purpose)
    ELSE Read(newSql.purpose)

\* a merge step that appends whatever the ledger holds
appendOne(merged, newSql, fallbackThreadId) ==
    Append(merged,
           [newSql EXCEPT !.threadId = Or(Read(newSql.threadId), fallbackThreadId),
                          !.originalPurpose = Read(newSql.purpose)])

mergeOne(merged, newSql, fallbackThreadId) ==
    LET update(existingIndex, existingSql) ==
            [merged EXCEPT ![existingIndex] =
                [id |-> newSql.id,
                 results |-> Spread(existingSql.results, newSql.results),
                 timestamp |-> newSql.timestamp,
                 status |-> newSql.status,
                 error |-> Spread(existingSql.error, newSql.error),
                 query |-> mergedQuery(existingSql, newSql),
                 purpose |-> mergedPurpose(existingSql, newSql),
                 threadId |-> Or(Read(existingSql.threadId),
                                 Or(Read(newSql.threadId), fallbackThreadId)),
                 originalPurpose |-> Or(Read(existingSql.originalPurpose),
                                        Read(existingSql.purpose))]]
        at(existingIndex) ==
            IF existingIndex # 0 THEN update(existingIndex, merged[existingIndex])
            ELSE Append(merged,
                    [newSql EXCEPT !.threadId = Or(Read(newSql.threadId), fallbackThreadId),
                                   !.originalPurpose = Read(newSql.purpose)])
    IN  at(findIndex(merged, newSql.id))

RECURSIVE mergeLoop(_, _, _)
mergeLoop(merged, incoming, fallbackThreadId) ==
    IF Len(incoming) = 0 THEN merged
    ELSE mergeLoop(mergeOne(merged, Head(incoming), fallbackThreadId), Tail(incoming),
                   fallbackThreadId)

mergeSqlExecutions(existing, incoming, fallbackThreadId) ==
    mergeLoop(existing, incoming, fallbackThreadId)

\* the onChunk callback of both streams: the ledger after it
onChunkLedger(prev, sqlExecutions, threadId) ==
    IF Len(sqlExecutions) > 0 THEN mergeSqlExecutions(prev, sqlExecutions, threadId)
    ELSE prev

handleSqlQueryEdit(prev, queryId, newQuery, newPurpose) ==
    [i \in 1..Len(prev) |->
        IF prev[i].id = queryId
        THEN [prev[i] EXCEPT !.query = newQuery,
                             !.purpose = newPurpose,
                             !.originalPurpose = Or(Read(prev[i].originalPurpose),
                                                    Read(prev[i].purpose))]
        ELSE prev[i]]

\* handleSqlQueryResume finds its target among the entries that are interrupted or
\* executing, and goes on only for an interrupted one
resumeTarget(current, queryId) ==
    LET hit(i) == /\ current[i].id = queryId
                  /\ current[i].status \in {"interrupted", "executing"}
    IN  IF \E i \in 1..Len(current) : hit(i)
        THEN CHOOSE i \in 1..Len(current) : hit(i) /\ \A j \in 1..(i - 1) : ~hit(j)
        ELSE 0

\* a resume that files the entry under the thread it runs in
resumeRekeyed(prev, queryId, target, newThreadId) ==
    [i \in 1..Len(prev) |->
        IF prev[i].id = queryId
        THEN [prev[i] EXCEPT !.id = newThreadId.s, !.status = "executing"]
        ELSE prev[i]]

\* the two ledger updates of a resume that goes on: the thread id where the target
\* has none, then the status
resumeLedger(prev, queryId, target, newThreadId) ==
    [i \in 1..Len(prev) |->
        IF prev[i].id = queryId
        THEN [prev[i] EXCEPT !.threadId = IF Truthy(Read(target.threadId)) THEN @
                                          ELSE newThreadId,
                             !.status = "executing",
                             !.error = JUndef]
        ELSE prev[i]]

-----------------------------------------------------------------------------
(* The texts the model feeds to the parser *)

JoinWith(ss, sep) ==
    Join([i \in 1..Len(ss) |-> IF i = 1 THEN ss[i] ELSE sep \o ss[i]])

Member(k, valueText) == Quote(<<k>>) \o <<":">> \o valueText
ObjText(members) == <<"{">> \o JoinWith(members, <<",">>) \o <<"}">>
ArrText(elems) == <<"[">> \o JoinWith(elems, <<",">>) \o <<"]">>

\* the route's `data: ${JSON.stringify({ content })}\n\n`, as the driver hands it
\* to parseChunk (line + '\n\n')
Envelope(content) ==
    Data(ObjText(<<Member("content", Quote(content))>>)) \o <<NL, NL>>

\* inner protocol lines, each ended by a line break
Lines(ls) == Join([i \in 1..Len(ls) |-> ls[i] \o <<NL>>])

\* a record of several outer lines
RawRecord(ls) == JoinWith(ls, <<NL>>) \o <<NL, NL>>

SelectOne == <<"SELECT", SP, "1">>
Hello == <<"hello">>

InSql == ObjText(<<Member("query", Quote(SelectOne)), Member("purpose", Quote(<<"list">>))>>)
InSqlNoPurpose == ObjText(<<Member("query", Quote(SelectOne))>>)
InProse == ObjText(<<Member("query", Quote(Hello))>>)

OutRows == ObjText(<<Member("results", ArrText(<<ObjText(<<Member("a", <<"1">>)>>)>>))>>)
OutError == ObjText(<<Member("error", Quote(<<"x">>)),
                      Member("message", Quote(<<"bad", SP, "column">>))>>)
OutErrorNull == ObjText(<<Member("error", <<"null">>),
                          Member("message", Quote(<<"bad", SP, "column">>))>>)
OutPlain == ObjText(<<Member("a", <<"1">>)>>)
OutBad == <<"{", "bad">>

PayloadSql == ArrText(<<ObjText(<<Member("id", Quote(<<"q1">>)),
                                  Member("value", Quote(SelectOne))>>)>>)
PayloadSqlNoId == ArrText(<<ObjText(<<Member("value", Quote(SelectOne))>>)>>)
PayloadProse == ArrText(<<ObjText(<<Member("id", Quote(<<"q1">>)),
                                    Member("value", Quote(Hello))>>)>>)

-----------------------------------------------------------------------------
(* The records of the tool-call and interruption protocol *)

BlockStart(name) == <<Event("block-start"), TypeLine(name)>>
BlockEnd(name) == <<Event("block-end"), TypeLine(name)>>

\* a whole tool-input block, its payload JSON-string-encoded on one data line
ToolInputBlock(doc) ==
    BlockStart("tool-input") \o <<Data(Quote(doc))>> \o BlockEnd("tool-input")

\* a whole tool-output block, its payload raw on one data line
ToolOutputBlock(raw) ==
    BlockStart("tool-output") \o <<Data(raw)>> \o BlockEnd("tool-output")

\* a tool-input block left open after its data line
OpenToolInput(doc) == BlockStart("tool-input") \o <<Data(Quote(doc))>>

\* the contents (inner lines) the parser-level specification sends, one envelope each
ToolContents ==
    {ToolInputBlock(InSql), ToolInputBlock(InProse),
     OpenToolInput(InSqlNoPurpose), BlockEnd("tool-input"),
     ToolOutputBlock(OutRows), ToolOutputBlock(OutError), ToolOutputBlock(OutErrorNull),
     ToolOutputBlock(OutPlain), ToolOutputBlock(OutBad)}

\* the interruption records, as outer lines
InterruptRecords ==
    {RawRecord(<<InterruptEvent, Data(PayloadSql)>>),
     RawRecord(<<InterruptEvent, Data(PayloadSqlNoId)>>),
     RawRecord(<<InterruptEvent, Data(PayloadProse)>>),
     RawRecord(<<InterruptEvent>>)}

ToolRecords == {Envelope(Lines(c)) : c \in ToolContents} \cup InterruptRecords

ResumeIds == {<<"q1">>}

-----------------------------------------------------------------------------
(* The parser as an object: any sequence of calls of its methods *)

MaxCalls == 3
MaxClock == 1

NoStream == [active |-> FALSE, threadId |-> JUndef, target |-> NoId]

Init ==
    /\ parser = NewParser
    /\ ret = NoRet
    /\ chunk = <<>>
    /\ ledger = <<>>
    /\ clock = 0
    /\ idSeq = 0
    /\ calls = 0
    /\ stream = NoStream
    /\ inner = <<>>
    /\ pending = <<>>
    /\ probe = <<>>
    /\ verdict = FALSE
    /\ sqlExecutionsRef = <<>>
    /\ streamingMessageId = JNull
    /\ requests = <<>>

\* parser.parseChunk(rawChunk), the clock advancing by lag during the call
Parse(rawChunk, lag) ==
    /\ clock + lag <= MaxClock
    /\ LET returned(r) ==
               /\ parser' = r.p
               /\ idSeq' = r.ids
               /\ ret' = r.ret
       IN  returned(parseChunk([p |-> parser, ids |-> idSeq], rawChunk, clock, clock + lag))
    /\ chunk' = rawChunk
    /\ calls' = calls + 1
    /\ clock' = clock + lag

ParseChunk ==
    /\ calls < MaxCalls
    /\ \E rawChunk \in ToolRecords, lag \in {0, 1} : Parse(rawChunk, lag)
    /\ UNCHANGED <<ledger, stream, inner, pending, probe, verdict>>
    /\ UNCHANGED component

Reset ==
    /\ parser' = reset(parser)
    /\ UNCHANGED <<ret, chunk, ledger, clock, idSeq, calls, stream, inner, pending, probe,
                   verdict>>
    /\ UNCHANGED component

SetResumeTargetSqlId ==
    /\ \E sqlId \in ResumeIds : parser' = setResumeTargetSqlId(parser, sqlId)
    /\ UNCHANGED <<ret, chunk, ledger, clock, idSeq, calls, stream, inner, pending, probe,
                   verdict>>
    /\ UNCHANGED component

Next == ParseChunk \/ Reset \/ SetResumeTargetSqlId

Spec == Init /\ [][Next]_vars

-----------------------------------------------------------------------------
(* isSqlQuery applied to candidate strings *)

MaxLead == 12

LeadKinds == {"dash", "slash", "mixed", "prose", "lower", "blank"}
CommentKinds == {"dash", "slash", "mixed"}

DashLine == <<"--", SP, "c">>
SlashLine == <<"/*", SP, "c", SP, "*/">>

\* the i-th leading line of a candidate of the given kind
LeadLine(kind, i) ==
    CASE kind = "dash" -> DashLine
      [] kind = "slash" -> SlashLine
      [] kind = "mixed" -> (IF i % 2 = 1 THEN <<SP>> \o DashLine ELSE SlashLine)
      [] kind = "prose" -> Hello
      [] kind = "lower" -> <<"x", SP, "select", SP, "1">>
      [] OTHER -> <<SP>>

\* the lines that may follow the leading ones
Tails ==
    {<<>>, <<SelectOne>>, <<<<TAB, "select", SP, "1">>>>, <<Hello, <<"WITH">>>>}

Candidate(kind, n, tail) ==
    JoinWith([i \in 1..n |-> LeadLine(kind, i)] \o tail, <<NL>>)

Candidates ==
    {Candidate(kind, n, tail) : kind \in LeadKinds, n \in 0..MaxLead, tail \in Tails}

InitSql ==
    /\ probe \in Candidates
    /\ parser = NewParser
    /\ ret = NoRet
    /\ chunk = <<>>
    /\ ledger = <<>>
    /\ clock = 0
    /\ idSeq = 0
    /\ calls = 0
    /\ stream = NoStream
    /\ inner = <<>>
    /\ pending = <<>>
    /\ verdict = FALSE
    /\ sqlExecutionsRef = <<>>
    /\ streamingMessageId = JNull
    /\ requests = <<>>

\* this.isSqlQuery(probe)
IsSqlQuery ==
    /\ calls = 0
    /\ verdict' = isSqlQuery(probe)
    /\ calls' = 1
    /\ UNCHANGED <<parser, ret, chunk, ledger, clock, idSeq, stream, inner, pending, probe>>
    /\ UNCHANGED component

NextSql == IsSqlQuery

SpecSql == InitSql /\ [][NextSql]_vars

-----------------------------------------------------------------------------
(* A stream of reasoning and narrative blocks, delivered in pieces *)

\* a block of the inner stream: its start, one data line per fragment, its end
BlockLines(block) ==
    BlockStart(block.type)
        \o [i \in 1..Len(block.frags) |-> Data(Quote(block.frags[i]))]
        \o BlockEnd(block.type)

InnerLines(blocks) == Join([i \in 1..Len(blocks) |-> BlockLines(blocks[i])])

TextBlock(frags) == [type |-> "text", frags |-> frags]
ThinkingBlock(frags) == [type |-> "thinking", frags |-> frags]

InnerStreams ==
    {<<TextBlock(<<<<"a">>, <<"b">>>>)>>,
     <<ThinkingBlock(<<<<"a">>>>), TextBlock(<<<<"b">>>>)>>,
     <<TextBlock(<<<<"a">>>>), ThinkingBlock(<<<<"x">>>>), TextBlock(<<<<Q, "b">>>>)>>}

InitChunk ==
    /\ inner \in InnerStreams
    /\ pending = InnerLines(inner)
    /\ parser = NewParser
    /\ ret = NoRet
    /\ chunk = <<>>
    /\ ledger = <<>>
    /\ clock = 0
    /\ idSeq = 0
    /\ calls = 0
    /\ stream = NoStream
    /\ probe = <<>>
    /\ verdict = FALSE
    /\ sqlExecutionsRef = <<>>
    /\ streamingMessageId = JNull
    /\ requests = <<>>

\* the next k lines of the stream arrive as the content of one envelope
Deliver ==
    /\ \E k \in 1..Len(pending) :
        /\ Parse(Envelope(Lines(SubSeq(pending, 1, k))), 0)
        /\ pending' = SubSeq(pending, k + 1, Len(pending))
    /\ UNCHANGED <<ledger, stream, inner, probe, verdict>>
    /\ UNCHANGED component

NextChunk == Deliver

SpecChunk == InitChunk /\ [][NextChunk]_vars

-----------------------------------------------------------------------------
(* The chat component: streams, the ledger, edits and resumes *)

\* threadIdRef.current, and the crypto.randomUUID() of a resume
ChatThread == JStr(<<"t0">>)
ResumeThread == JStr(<<"t1">>)

\* both blocks of a tool call in one envelope
ToolCall(doc, raw) == ToolInputBlock(doc) \o ToolOutputBlock(raw)

LedgerRecords ==
    {Envelope(Lines(ToolInputBlock(InSql))),
     Envelope(Lines(ToolCall(InSqlNoPurpose, OutRows))),
     Envelope(Lines(ToolOutputBlock(OutRows))),
     Envelope(Lines(ToolOutputBlock(OutBad))),
     RawRecord(<<InterruptEvent, Data(PayloadSql)>>),
     RawRecord(<<InterruptEvent>>)}

EditedQuery == <<"SELECT", SP, "2">>
EditedPurpose == JStr(<<"edited">>)

\* handleStreamResponse: streamChatSSE creates its parser
StartChat ==
    /\ ~stream.active
    /\ stream' = [active |-> TRUE, threadId |-> ChatThread, target |-> NoId]
    /\ parser' = NewParser
    /\ UNCHANGED <<ret, chunk, ledger, clock, idSeq, calls, inner, pending, probe, verdict>>
    /\ UNCHANGED component

\* one record read by the driver: parseChunk, then onChunk; the driver returns
\* when the parser reports an interruption
Record ==
    /\ stream.active
    /\ calls < MaxCalls
    /\ \E rawChunk \in LedgerRecords : Parse(rawChunk, 0)
    /\ ledger' = onChunkLedger(ledger, ret'.sqlExecutions, stream.threadId)
    /\ stream' = IF ret'.isInterrupted THEN NoStream ELSE stream
    /\ UNCHANGED <<inner, pending, probe, verdict>>
    /\ UNCHANGED component

\* reader.read() reports done
EndStream ==
    /\ stream.active
    /\ stream' = NoStream
    /\ UNCHANGED <<parser, ret, chunk, ledger, clock, idSeq, calls, inner, pending, probe,
                   verdict>>
    /\ UNCHANGED component

\* the panel saves edited.purpose.trim(), which is empty when the field was cleared
Edit ==
    /\ \E i \in 1..Len(ledger), newPurpose \in {EditedPurpose, JStr(<<>>)} :
        ledger' = handleSqlQueryEdit(ledger, ledger[i].id, EditedQuery, newPurpose)
    /\ UNCHANGED <<parser, ret, chunk, clock, idSeq, calls, stream, inner, pending, probe,
                   verdict>>
    /\ UNCHANGED component

\* handleSqlQueryResume up to the start of its stream; executeQuerySSE creates the
\* parser and binds the target id
Resume ==
    /\ ~stream.active
    /\ \E i \in 1..Len(ledger) :
        LET queryId == ledger[i].id
            started(at) ==
                /\ at # 0
                /\ ledger[at].status = "interrupted"
                /\ ledger' = resumeLedger(ledger, queryId, ledger[at], ResumeThread)
                /\ stream' = [active |-> TRUE,
                              threadId |-> Or(Read(ledger[at].threadId), ResumeThread),
                              target |-> queryId]
                /\ parser' = setResumeTargetSqlId(NewParser, queryId)
        IN  started(resumeTarget(ledger, queryId))
    /\ UNCHANGED <<ret, chunk, clock, idSeq, calls, inner, pending, probe, verdict>>
    /\ UNCHANGED component

NextLedger == StartChat \/ Record \/ EndStream \/ Edit \/ Resume

SpecLedger == Init /\ [][NextLedger]_vars

-----------------------------------------------------------------------------
(* A parser fed reasoning and narrative records, and reset *)

\* the records of reasoning and narrative the stream route can send: whole blocks,
\* blocks left open, fragments, a block end, data lines that are no JSON, the bare
\* channel event, and the sentinel line followed by an envelope line; with them, a
\* block end that no type line follows, tool-input blocks (a SQL-like query, a
\* query that is prose, no query), one with an event line the parser does not
\* know, a tool-output block without a data line, the
\* interruption as the route wraps it and as an outer record, an interruption
\* between two envelope lines of one chunk, a reasoning block left open whose
\* fragment has blanks around it, and the completion event followed by a fragment
BlockRecords ==
    {Envelope(Lines(c)) :
        c \in {BlockLines(TextBlock(<<<<"a">>>>)),
               BlockLines(ThinkingBlock(<<<<"x">>>>)),
               BlockLines(TextBlock(<<<<"a">>>>)) \o BlockLines(TextBlock(<<<<"b">>>>)),
               BlockStart("text") \o <<Data(Quote(<<"a">>))>>,
               BlockStart("thinking") \o <<Data(Quote(<<"x">>))>>,
               BlockStart("thinking") \o <<Data(Quote(<<SP, "y", SP>>))>>,
               <<Event("complete"), Data(Quote(<<"b">>))>>,
               <<Event("text"), Data(Quote(<<"b">>))>>,
               <<Data(OutBad)>>,
               <<Data(OutBad), Data(Quote(<<"b">>))>>,
               BlockEnd("thinking"),
               <<Event("block-end")>> \o BlockStart("text") \o <<Data(Quote(<<"a">>))>>,
               ToolInputBlock(InSql),
               ToolInputBlock(InProse),
               ToolInputBlock(OutPlain),
               BlockStart("tool-input") \o <<Event("ping"), Data(Quote(InSql))>>
                   \o BlockEnd("tool-input"),
               BlockStart("tool-output") \o BlockEnd("tool-output"),
               <<InterruptEvent, Data(PayloadSql)>>}}
    \cup {DoneLine \o <<NL>> \o Envelope(Lines(BlockLines(TextBlock(<<<<"a">>>>)))),
          RawRecord(<<InterruptEvent, Data(PayloadSql)>>),
          Envelope(Lines(BlockLines(TextBlock(<<<<"a">>>>))))
              \o RawRecord(<<InterruptEvent, Data(PayloadSql)>>)
              \o Envelope(Lines(BlockLines(TextBlock(<<<<"b">>>>))))}

ParseBlocks ==
    /\ calls < MaxCalls
    /\ \E rawChunk \in BlockRecords, lag \in {0, 1} : Parse(rawChunk, lag)
    /\ UNCHANGED <<ledger, stream, inner, pending, probe, verdict>>
    /\ UNCHANGED component

SpecBlocks == Init /\ [][ParseBlocks \/ Reset]_vars

-----------------------------------------------------------------------------
(* The stream drivers: streamChatSSE and executeQuerySSE *)

MaxReads == 2

\* a loop that does not return on an interruption
RECURSIVE driveAll(_, _, _, _)
driveAll(d, lines, i, now) ==
    LET called(r) ==
            [d EXCEPT !.p = r.p, !.ids = r.ids, !.ret = r.ret,
                      !.chunk = lines[i] \o <<NL, NL>>,
                      !.calls = @ + 1,
                      !.log = @ \o <<[op |-> "parseChunk", interrupted |-> r.ret.isInterrupted],
                                     [op |-> "onChunk", interrupted |-> FALSE]>>
                                \o (IF r.ret.isInterrupted
                                    THEN <<[op |-> "onComplete", interrupted |-> FALSE]>>
                                    ELSE <<>>)]
        body(r) == driveAll(called(r), lines, i + 1, now)
    IN  IF i > Len(lines) THEN d
        ELSE IF Trim(lines[i]) = <<>> THEN driveAll(d, lines, i + 1, now)
        ELSE body(parseChunk([p |-> d.p, ids |-> d.ids], lines[i] \o <<NL, NL>>, now, now))

\* a loop that returns on an interruption without calling onComplete
RECURSIVE driveSilent(_, _, _, _)
driveSilent(d, lines, i, now) ==
    LET called(r) ==
            [d EXCEPT !.p = r.p, !.ids = r.ids, !.ret = r.ret,
                      !.chunk = lines[i] \o <<NL, NL>>,
                      !.calls = @ + 1,
                      !.log = @ \o <<[op |-> "parseChunk", interrupted |-> r.ret.isInterrupted],
                                     [op |-> "onChunk", interrupted |-> FALSE]>>]
        body(r) ==
            IF r.ret.isInterrupted THEN [called(r) EXCEPT !.returned = TRUE]
            ELSE driveSilent(called(r), lines, i + 1, now)
    IN  IF i > Len(lines) THEN d
        ELSE IF Trim(lines[i]) = <<>> THEN driveSilent(d, lines, i + 1, now)
        ELSE body(parseChunk([p |-> d.p, ids |-> d.ids], lines[i] \o <<NL, NL>>, now, now))

\* the body of `for (const line of lines)` from line i on, run to its end or to the
\* return on an interruption; d is the parser with what the driver did so far (its
\* reads and its calls of parseChunk, onChunk and onComplete, in order)
RECURSIVE driveLines(_, _, _, _)
driveLines(d, lines, i, now) ==
    LET called(r) ==
            [d EXCEPT !.p = r.p, !.ids = r.ids, !.ret = r.ret,
                      !.chunk = lines[i] \o <<NL, NL>>,
                      !.calls = @ + 1,
                      !.log = @ \o <<[op |-> "parseChunk", interrupted |-> r.ret.isInterrupted],
                                     [op |-> "onChunk", interrupted |-> FALSE]>>]
        body(r) ==
            IF r.ret.isInterrupted
            THEN [called(r) EXCEPT
                     !.log = @ \o <<[op |-> "onComplete", interrupted |-> FALSE]>>,
                     !.returned = TRUE]
            ELSE driveLines(called(r), lines, i + 1, now)
    IN  IF i > Len(lines) THEN d
        ELSE IF Trim(lines[i]) = <<>> THEN driveLines(d, lines, i + 1, now)
        ELSE body(parseChunk([p |-> d.p, ids |-> d.ids], lines[i] \o <<NL, NL>>, now, now))

\* the driver is called: the response is not OK (onError, no stream), or a parser is
\* made (with the resume target, in executeQuerySSE) for the stream the transport
\* will deliver
StartStream ==
    /\ stream = NoStream
    /\ calls = 0
    /\ \E target \in {NoId} \cup ResumeIds :
        /\ parser' = IF target = NoId THEN NewParser
                     ELSE setResumeTargetSqlId(NewParser, target)
        /\ \/ /\ \E transport \in
                    {Envelope(Lines(BlockLines(TextBlock(<<<<"a">>>>))))
                        \o RawRecord(<<InterruptEvent, Data(PayloadSql)>>)
                        \o Envelope(Lines(BlockLines(TextBlock(<<<<"b">>>>)))),
                     Envelope(Lines(ToolInputBlock(InSql)))
                        \o RawRecord(<<InterruptEvent>>)
                        \o Envelope(Lines(ToolOutputBlock(OutRows))),
                     Envelope(Lines(ToolOutputBlock(OutRows)))
                        \o Envelope(Lines(BlockLines(TextBlock(<<<<"a">>>>))))} :
                    /\ inner' = transport
                    /\ pending' = transport
              /\ stream' = [active |-> TRUE, threadId |-> ChatThread, target |-> target,
                            buffer |-> <<>>, log |-> <<>>]
           \/ /\ stream' = [active |-> FALSE, threadId |-> ChatThread, target |-> target,
                            buffer |-> <<>>,
                            log |-> <<[op |-> "onError", interrupted |-> FALSE]>>]
              /\ UNCHANGED <<inner, pending>>
    /\ UNCHANGED <<ret, chunk, ledger, clock, idSeq, calls, probe, verdict>>
    /\ UNCHANGED component

\* a turn that forgets the partial record at the end of the buffer
ReadStreamForgetful ==
    LET read == <<[op |-> "read", interrupted |-> FALSE]>>
        reads == Cardinality({i \in 1..Len(stream.log) : stream.log[i].op = "read"})
        \* buffer.split('\n\n'): the separators are found from left to right
        split(s) ==
            LET sepAt(i) ==
                    /\ i < Len(s) /\ s[i] = NL /\ s[i + 1] = NL
                    /\ (Cardinality({j \in 1..(i - 1) : \A k \in j..(i - 1) : s[k] = NL})
                            % 2) = 0
                seps == {i \in 1..Len(s) : sepAt(i)}
                n == Cardinality(seps) + 1
                start(m) ==
                    IF m = 1 THEN 1
                    ELSE 2 + CHOOSE i \in seps : Cardinality({j \in seps : j < i}) = m - 2
                end(m) ==
                    IF m = n THEN Len(s)
                    ELSE (CHOOSE i \in seps : Cardinality({j \in seps : j < i}) = m - 1) - 1
            IN  [m \in 1..n |-> SubSeq(s, start(m), end(m))]
        looped(lines, d) ==
            /\ parser' = d.p
            /\ idSeq' = d.ids
            /\ ret' = d.ret
            /\ chunk' = d.chunk
            /\ calls' = d.calls
            /\ stream' = [stream EXCEPT !.active = ~d.returned,
                                        !.buffer = <<>>,
                                        !.log = d.log]
        loop(lines) ==
            looped(lines,
                   driveLines([p |-> parser, ids |-> idSeq, ret |-> ret, chunk |-> chunk,
                               calls |-> calls, log |-> stream.log \o read,
                               returned |-> FALSE],
                              SubSeq(lines, 1, Len(lines) - 1), 1, clock))
    IN  /\ stream.active
        /\ \/ /\ pending = <<>>
              /\ stream' = [stream EXCEPT
                               !.active = FALSE,
                               !.log = @ \o read \o <<[op |-> "onComplete",
                                                       interrupted |-> FALSE]>>]
              /\ UNCHANGED <<parser, ret, chunk, idSeq, calls, pending>>
           \/ /\ stream' = [stream EXCEPT
                               !.active = FALSE,
                               !.log = @ \o read \o <<[op |-> "onError",
                                                       interrupted |-> FALSE]>>]
              /\ UNCHANGED <<parser, ret, chunk, idSeq, calls, pending>>
           \/ /\ reads < MaxReads
              /\ \E k \in 1..Len(pending) :
                    /\ loop(split(stream.buffer \o SubSeq(pending, 1, k)))
                    /\ pending' = SubSeq(pending, k + 1, Len(pending))
        /\ UNCHANGED <<ledger, clock, inner, probe, verdict>>
        /\ UNCHANGED component

\* one turn of `while (true)`: reader.read() reports the end (onComplete), fails
\* (onError), or gives the next k atoms of the transport, which are added to the
\* buffer; the complete records of the buffer are then parsed in order
ReadStream ==
    LET read == <<[op |-> "read", interrupted |-> FALSE]>>
        reads == Cardinality({i \in 1..Len(stream.log) : stream.log[i].op = "read"})
        \* buffer.split('\n\n'): the separators are found from left to right
        split(s) ==
            LET sepAt(i) ==
                    /\ i < Len(s) /\ s[i] = NL /\ s[i + 1] = NL
                    /\ (Cardinality({j \in 1..(i - 1) : \A k \in j..(i - 1) : s[k] = NL})
                            % 2) = 0
                seps == {i \in 1..Len(s) : sepAt(i)}
                n == Cardinality(seps) + 1
                start(m) ==
                    IF m = 1 THEN 1
                    ELSE 2 + CHOOSE i \in seps : Cardinality({j \in seps : j < i}) = m - 2
                end(m) ==
                    IF m = n THEN Len(s)
                    ELSE (CHOOSE i \in seps : Cardinality({j \in seps : j < i}) = m - 1) - 1
            IN  [m \in 1..n |-> SubSeq(s, start(m), end(m))]
        looped(lines, d) ==
            /\ parser' = d.p
            /\ idSeq' = d.ids
            /\ ret' = d.ret
            /\ chunk' = d.chunk
            /\ calls' = d.calls
            /\ stream' = [stream EXCEPT !.active = ~d.returned,
                                        !.buffer = lines[Len(lines)],
                                        !.log = d.log]
        loop(lines) ==
            looped(lines,
                   driveLines([p |-> parser, ids |-> idSeq, ret |-> ret, chunk |-> chunk,
                               calls |-> calls, log |-> stream.log \o read,
                               returned |-> FALSE],
                              SubSeq(lines, 1, Len(lines) - 1), 1, clock))
    IN  /\ stream.active
        /\ \/ /\ pending = <<>>
              /\ stream' = [stream EXCEPT
                               !.active = FALSE,
                               !.log = @ \o read \o <<[op |-> "onComplete",
                                                       interrupted |-> FALSE]>>]
              /\ UNCHANGED <<parser, ret, chunk, idSeq, calls, pending>>
           \/ /\ stream' = [stream EXCEPT
                               !.active = FALSE,
                               !.log = @ \o read \o <<[op |-> "onError",
                                                       interrupted |-> FALSE]>>]
              /\ UNCHANGED <<parser, ret, chunk, idSeq, calls, pending>>
           \/ /\ reads < MaxReads
              /\ \E k \in 1..Len(pending) :
                    /\ loop(split(stream.buffer \o SubSeq(pending, 1, k)))
                    /\ pending' = SubSeq(pending, k + 1, Len(pending))
        /\ UNCHANGED <<ledger, clock, inner, probe, verdict>>
        /\ UNCHANGED component

SpecDriver == Init /\ [][StartStream \/ ReadStream]_vars

-----------------------------------------------------------------------------
(* The resume handler of the chat component *)

MaxResumes == 2

\* the chat streams that ended in an interruption, as the records they delivered
InterruptedChats ==
    {<<RawRecord(<<InterruptEvent, Data(PayloadSql)>>)>>,
     <<Envelope(Lines(ToolInputBlock(InSql))), RawRecord(<<InterruptEvent>>)>>,
     <<Envelope(Lines(ToolCall(InSqlNoPurpose, OutRows))),
       RawRecord(<<InterruptEvent, Data(PayloadSql)>>)>>}

\* handleStreamResponse run to its end over recs: the ledger it leaves and the
\* random ids it drew
RECURSIVE afterChat(_, _, _, _)
afterChat(w, prev, recs, i) ==
    LET merged(r) ==
            afterChat([p |-> r.p, ids |-> r.ids],
                      onChunkLedger(prev, r.ret.sqlExecutions, ChatThread), recs, i + 1)
    IN  IF i > Len(recs) THEN [ledger |-> prev, ids |-> w.ids]
        ELSE merged(parseChunk(w, recs[i], 0, 0))

InterruptedStates ==
    {afterChat([p |-> NewParser, ids |-> 0], <<>>, recs, 1) : recs \in InterruptedChats}

\* what a resumed stream may deliver
ResumeRecords ==
    {Envelope(Lines(ToolOutputBlock(OutRows))),
     Envelope(Lines(ToolOutputBlock(OutBad))),
     RawRecord(<<InterruptEvent, Data(PayloadSql)>>)}

\* the id addMessage gives to the n-th message of a resumed stream
botMessageId(n) == JStr([k \in 1..n |-> "m"])

\* the component was rendered after a chat stream that ended in an interruption
InitResume ==
    /\ \E c \in InterruptedStates :
        /\ ledger = c.ledger
        /\ idSeq = c.ids
    /\ sqlExecutionsRef = ledger
    /\ streamingMessageId = JNull
    /\ requests = <<>>
    /\ parser = NewParser
    /\ ret = NoRet
    /\ chunk = <<>>
    /\ clock = 0
    /\ calls = 0
    /\ stream = NoStream
    /\ inner = <<>>
    /\ pending = <<>>
    /\ probe = <<>>
    /\ verdict = FALSE

\* the effect that runs after a render
Render ==
    /\ sqlExecutionsRef # ledger
    /\ sqlExecutionsRef' = ledger
    /\ UNCHANGED <<parser, ret, chunk, ledger, clock, idSeq, calls, stream, inner, pending,
                   probe, verdict, streamingMessageId, requests>>

\* handleSqlQueryResume up to the await of executeQuerySSE, for an entry the panel
\* shows; the model follows the stream that was requested last
HandleSqlQueryResume ==
    /\ Len(requests) < MaxResumes
    /\ \E i \in 1..Len(sqlExecutionsRef) :
        LET queryId == sqlExecutionsRef[i].id
            currentSqlExecutions == sqlExecutionsRef
            started(at) ==
                /\ at # 0
                /\ currentSqlExecutions[at].status # "executing"
                /\ ledger' = resumeLedger(ledger, queryId, currentSqlExecutions[at],
                                          ResumeThread)
                /\ streamingMessageId' = botMessageId(Len(requests) + 1)
                /\ requests' = Append(requests, queryId)
                /\ stream' = [active |-> TRUE,
                              threadId |-> Or(Read(currentSqlExecutions[at].threadId),
                                              ResumeThread),
                              target |-> queryId,
                              log |-> <<>>]
                /\ parser' = setResumeTargetSqlId(NewParser, queryId)
        IN  started(resumeTarget(currentSqlExecutions, queryId))
    /\ UNCHANGED <<ret, chunk, clock, idSeq, calls, inner, pending, probe, verdict,
                   sqlExecutionsRef>>

\* one record read by executeQuerySSE: parseChunk, then the handler's onChunk; on an
\* interruption the driver calls onComplete and returns
ResumeRecord ==
    /\ stream.active
    /\ calls < MaxCalls
    /\ \E rawChunk \in ResumeRecords : Parse(rawChunk, 0)
    /\ ledger' = onChunkLedger(ledger, ret'.sqlExecutions, stream.threadId)
    /\ stream' = IF ret'.isInterrupted
                 THEN [stream EXCEPT !.active = FALSE, !.log = @ \o <<"onComplete">>]
                 ELSE stream
    /\ streamingMessageId' = IF ret'.isInterrupted THEN JNull ELSE streamingMessageId
    /\ UNCHANGED <<inner, pending, probe, verdict, sqlExecutionsRef, requests>>

\* reader.read() reports done: onComplete
ResumeDone ==
    /\ stream.active
    /\ stream' = [stream EXCEPT !.active = FALSE, !.log = @ \o <<"onComplete">>]
    /\ streamingMessageId' = JNull
    /\ UNCHANGED <<parser, ret, chunk, ledger, clock, idSeq, calls, inner, pending, probe,
                   verdict, sqlExecutionsRef, requests>>

\* the response is not OK or reader.read() fails: executeQuerySSE catches the
\* error and calls the handler's onError, which writes to the console
ResumeFails ==
    /\ stream.active
    /\ stream' = [stream EXCEPT !.active = FALSE, !.log = @ \o <<"onError">>]
    /\ UNCHANGED <<parser, ret, chunk, ledger, clock, idSeq, calls, inner, pending, probe,
                   verdict, sqlExecutionsRef, streamingMessageId, requests>>

NextResume == Render \/ HandleSqlQueryResume \/ ResumeRecord \/ ResumeDone \/ ResumeFails

SpecResume == InitResume /\ [][NextResume]_vars

-----------------------------------------------------------------------------
(* Properties of isSqlQuery (SpecSql) *)

\* the candidate was classified
Classified == calls = 1

\* the lines of a candidate string
CandidateLines(text) == Split(text, NL)

\* a prose line: not empty, no comment, and not begun by (nor equal to) a keyword,
\* the letters compared without regard to case as the heuristic compares them
ProseLine(line) ==
    /\ ~skippedLine(Trim(ToUpperCase(line)))
    /\ ~startsWithSql(Trim(ToUpperCase(line)))

FirstLinesProse(text) ==
    /\ Len(CandidateLines(text)) >= ScanLines
    /\ \A i \in 1..ScanLines : ProseLine(CandidateLines(text)[i])

\* C9 as stated: a candidate made of ten or more comment-only lines followed by a
\* line that starts with SELECT and a space is classified as SQL-like, however many
\* comment lines lead it.
C9_CommentLinesOutsideBudget ==
    \A kind \in CommentKinds, n \in ScanLines..MaxLead :
        (Classified /\ probe = Candidate(kind, n, <<SelectOne>>)) => verdict

\* C10: a candidate whose first ten lines are all prose is never classified as
\* SQL-like, whatever lines follow the tenth.
C10_ProseHeadNeverSql ==
    (Classified /\ FirstLinesProse(probe)) => ~verdict

\* ten prose lines followed by one that starts with SELECT were classified not SQL-like
C10_Witness ==
    /\ Classified
    /\ probe = Candidate("prose", ScanLines, <<SelectOne>>)
    /\ FirstLinesProse(probe)
    /\ ~verdict

-----------------------------------------------------------------------------
(* Properties of tool calls and interruptions (Spec) *)

ToolInputs == {InSql, InSqlNoPurpose, InProse}
ToolOutputs == {OutRows, OutError, OutErrorNull, OutPlain, OutBad}
InterruptPayloads == {PayloadSql, PayloadSqlNoId, PayloadProse}

\* what each payload text parses to
ParsedText == [text \in ToolInputs \cup ToolOutputs \cup InterruptPayloads |-> JsonParse(text)]

\* the value a payload text parses to
Payload(text) == ParsedText[text].val

HasField(v, k) == v.t = "obj" /\ \E i \in 1..Len(v.ks) : v.ks[i] = k

\* the records that carry a whole tool-input block, a whole tool-output block, the
\* end of a tool-input block, and an interruption with its payload line
InputRecord == [doc \in ToolInputs |-> Envelope(Lines(ToolInputBlock(doc)))]
OutputRecord == [raw \in ToolOutputs |-> Envelope(Lines(ToolOutputBlock(raw)))]
InputEndRecord == Envelope(Lines(BlockEnd("tool-input")))
InterruptRecord == [payload \in InterruptPayloads |-> RawRecord(<<InterruptEvent, Data(payload)>>)]

\* this step is a parseChunk call whose chunk is the given record
Parsed(record) == calls' = calls + 1 /\ chunk' = record

\* the tool-input payloads that are JSON with a SQL-like query
SqlInputs == {doc \in ToolInputs : ParsedText[doc].ok /\ hasSqlQuery(Payload(doc), <<"query">>)}

\* the tool-output payloads that parse to an object without an error field
PlainOutputs ==
    {raw \in ToolOutputs :
        /\ ParsedText[raw].ok
        /\ Payload(raw).t = "obj"
        /\ ~HasField(Payload(raw), <<"error">>)}

\* the last call closed a tool-input block whose payload is doc, and the closing
\* made the call's record; no interruption was handled by the parser
InputClosed(doc) ==
    /\ ~parser.isInterrupted
    /\ parser.currentToolInput = doc
    /\ parser.currentSqlId # NoId
    /\ chunk \in {InputRecord[doc], InputEndRecord}
    /\ findIndex(parser.sqlExecutions, parser.currentSqlId) # 0
    /\ parser.sqlExecutions[findIndex(parser.sqlExecutions, parser.currentSqlId)].status
           = "executing"

\* the list holds exactly one record with the id: completed, with the query and the results
OneCompleted(list, id, query, results) ==
    /\ Cardinality({i \in 1..Len(list) : list[i].id = id}) = 1
    /\ \A i \in 1..Len(list) :
          list[i].id = id =>
              /\ list[i].status = "completed"
              /\ list[i].query = query
              /\ list[i].results = results

\* C5 as stated: a closed tool-input block with a SQL-like query, followed (on a
\* parser that handled no interruption) by a tool-output block whose payload is an
\* object without an error field, leaves exactly one record for the call,
\* completed, with the input's query and with the payload's results field as its
\* results.
C5_ResultsAreResultsField ==
    [][\A doc \in SqlInputs, raw \in PlainOutputs :
          (Parsed(OutputRecord[raw]) /\ InputClosed(doc)) =>
              OneCompleted(parser'.sqlExecutions, parser.currentSqlId,
                           Get(Payload(doc), <<"query">>).s,
                           Get(Payload(raw), <<"results">>))]_vars

\* C5: a closed tool-input block with a SQL-like query, followed (on a parser that
\* handled no interruption) by a tool-output block whose payload is an object
\* without an error field, leaves exactly one record for the call, completed, with
\* the input's query; its results are the payload's results field where that field
\* is truthy and the whole payload otherwise.
C5_ToolCallCompletes ==
    [][\A doc \in SqlInputs, raw \in PlainOutputs :
          (Parsed(OutputRecord[raw]) /\ InputClosed(doc)) =>
              OneCompleted(parser'.sqlExecutions, parser.currentSqlId,
                           Get(Payload(doc), <<"query">>).s,
                           IF Truthy(Get(Payload(raw), <<"results">>))
                           THEN Get(Payload(raw), <<"results">>)
                           ELSE Payload(raw))]_vars

\* a tool call whose output has no results field was completed with the whole
\* payload as its results
C5_Witness ==
    /\ chunk = OutputRecord[OutPlain]
    /\ parser.currentToolInput = InSql
    /\ parser.currentSqlId # NoId
    /\ OneCompleted(parser.sqlExecutions, parser.currentSqlId, SelectOne, Payload(OutPlain))

\* the id a closing tool-output block is bound to
BoundId(p) == IF p.currentSqlId # NoId THEN p.currentSqlId ELSE p.resumeTargetSqlId

\* a record with the bound id exists and is executing
BoundExecuting(p) ==
    /\ BoundId(p) # NoId
    /\ findIndex(p.sqlExecutions, BoundId(p)) # 0
    /\ p.sqlExecutions[findIndex(p.sqlExecutions, BoundId(p))].status = "executing"

\* the record with the bound id went to error with the payload's message, and
\* nothing else about the list changed its shape
WentToError(p, q, message) ==
    LET at == findIndex(p.sqlExecutions, BoundId(p))
    IN  /\ Len(q.sqlExecutions) = Len(p.sqlExecutions)
        /\ q.sqlExecutions[at].status = "error"
        /\ q.sqlExecutions[at].error = message
        /\ q.sqlExecutions[at].id = p.sqlExecutions[at].id
        /\ q.sqlExecutions[at].query = p.sqlExecutions[at].query

\* the tool-output payloads that parse to an object carrying an error field, and
\* those whose error field is truthy
ErrorOutputs ==
    {raw \in ToolOutputs : ParsedText[raw].ok /\ HasField(Payload(raw), <<"error">>)}
TruthyErrorOutputs ==
    {raw \in ToolOutputs : ParsedText[raw].ok /\ Truthy(Get(Payload(raw), <<"error">>))}

FirstElement(payload) == Payload(payload).items[1]

\* the interruption payloads whose first element has an id and a SQL-like value
SqlPayloadsWithId ==
    {payload \in InterruptPayloads :
        /\ HasField(FirstElement(payload), <<"id">>)
        /\ hasSqlQuery(FirstElement(payload), <<"value">>)}

\* a record was appended with the id, the query and status interrupted
OneInterruptedAdded(before, after, id, query) ==
    /\ Len(after) = Len(before) + 1
    /\ SubSeq(after, 1, Len(before)) = before
    /\ after[Len(after)].id = id
    /\ after[Len(after)].query = query
    /\ after[Len(after)].status = "interrupted"

\* C7: an interruption line followed by a data line that holds an array whose first
\* element has an id and a SQL-like value makes the call return isInterrupted true
\* and an InterruptedQuery with the payload's id and with the payload's value as
\* query and originalQuery, and appends one record with that id, that query and
\* status interrupted.
C7_InterruptWithPayload ==
    [][\A payload \in SqlPayloadsWithId :
          Parsed(InterruptRecord[payload]) =>
              /\ ret'.isInterrupted
              /\ ~ret'.interruptedQuery.isNull
              /\ ret'.interruptedQuery.id = Get(FirstElement(payload), <<"id">>).s
              /\ ret'.interruptedQuery.query = Get(FirstElement(payload), <<"value">>).s
              /\ ret'.interruptedQuery.originalQuery
                     = Get(FirstElement(payload), <<"value">>).s
              /\ OneInterruptedAdded(parser.sqlExecutions, parser'.sqlExecutions,
                                     Get(FirstElement(payload), <<"id">>).s,
                                     Get(FirstElement(payload), <<"value">>).s)]_vars

\* an interruption with id q1 and value SELECT 1 was returned and recorded
C7_Witness ==
    /\ chunk = InterruptRecord[PayloadSql]
    /\ ret.isInterrupted
    /\ ret.interruptedQuery = [isNull |-> FALSE, id |-> <<"q1">>, query |-> SelectOne,
                               originalQuery |-> SelectOne,
                               purpose |-> JStr(InterruptedQueryLabel)]
    /\ Len(ret.sqlExecutions) = 1
    /\ ret.sqlExecutions[1].id = <<"q1">>
    /\ ret.sqlExecutions[1].status = "interrupted"

\* tool-input content with a SQL-like query is buffered
BufferedSql(p) ==
    /\ p.currentToolInput # <<>>
    /\ JsonParse(p.currentToolInput).ok
    /\ hasSqlQuery(JsonParse(p.currentToolInput).val, <<"query">>)

\* the interruption records whose payload value is not SQL-like, or that have no
\* payload line
BareInterrupts ==
    {InterruptRecord[payload] :
        payload \in {q \in InterruptPayloads : ~hasSqlQuery(FirstElement(q), <<"value">>)}}
        \cup {RawRecord(<<InterruptEvent>>)}

\* C8: an interruption record whose payload value is not SQL-like, or that has no
\* payload line, arriving while no tool-input content with a SQL-like query is
\* buffered, makes the call return isInterrupted true with interruptedQuery null and
\* adds no record. The record is the first interruption handed to the parser: a
\* driver hands its parser nothing once a call has returned isInterrupted.
C8_InterruptWithoutQuery ==
    [][\A record \in BareInterrupts :
          (/\ Parsed(record)
           /\ ~parser.isInterrupted
           /\ ~BufferedSql(parser)) =>
              /\ ret'.isInterrupted
              /\ ret'.interruptedQuery.isNull
              /\ parser'.sqlExecutions = parser.sqlExecutions
              /\ ret'.sqlExecutions = parser.sqlExecutions]_vars

\* an interruption with a prose value arrived while a prose tool input was buffered:
\* interrupted, no InterruptedQuery, no record
C8_Witness ==
    /\ chunk = InterruptRecord[PayloadProse]
    /\ parser.currentToolInput = InProse
    /\ ret.isInterrupted
    /\ ret.interruptedQuery.isNull
    /\ ret.sqlExecutions = <<>>

-----------------------------------------------------------------------------
(* Properties of chunked delivery (SpecChunk) *)

\* the decoded fragments of the narrative blocks of a stream, in order
NarrativeText(blocks) ==
    Join([i \in 1..Len(blocks) |->
             IF blocks[i].type = "text" THEN Join(blocks[i].frags) ELSE <<>>])

\* the whole stream was delivered
Delivered == pending = <<>> /\ calls > 0

\* C1 as stated: however the lines of a well-formed stream of reasoning and
\* narrative blocks are cut into successive envelopes for one parser, the text
\* returned by the last call is the concatenation of the decoded narrative
\* fragments, in order.
C1_ChunkBoundaryInvariance == Delivered => ret.text = NarrativeText(inner)

-----------------------------------------------------------------------------
(* Properties of the ledger (SpecLedger) *)

Fallbacks == {JUndef, ChatThread, ResumeThread}

\* the batches made of the deltas the parser returned last: every run of them, and
\* the whole list twice over
Batches ==
    {SubSeq(ret.sqlExecutions, a, b) :
        a \in 1..(Len(ret.sqlExecutions) + 1), b \in 0..Len(ret.sqlExecutions)}
        \cup {ret.sqlExecutions \o ret.sqlExecutions}

RepeatsAnId(batch) ==
    \E i, j \in 1..Len(batch) : i < j /\ batch[i].id = batch[j].id

C3_NoDuplicateIds ==
    \A i, j \in 1..Len(ledger) : i # j => ledger[i].id # ledger[j].id

\* a batch that repeats an id was merged, the entry was edited and then resumed
C3_Witness ==
    /\ RepeatsAnId(ret.sqlExecutions)
    /\ stream.target # NoId
    /\ \E i \in 1..Len(ledger) :
          /\ ledger[i].id = stream.target
          /\ ledger[i].purpose = EditedPurpose
          /\ ledger[i].status = "executing"

\* a delta with an empty query, for an id the ledger already holds
ResumeDelta(L, d) == Trim(d.query) = <<>> /\ findIndex(L, d.id) # 0

\* merging the delta leaves one entry with its id, with the query known before
KeepsQuery(L, d, M) ==
    /\ Cardinality({i \in 1..Len(M) : M[i].id = d.id}) = 1
    /\ M[findIndex(M, d.id)].query = L[findIndex(L, d.id)].query

-----------------------------------------------------------------------------
(* Properties of grouping and of block ids (SpecBlocks) *)

Prefix(a, b) == Len(a) <= Len(b) /\ SubSeq(b, 1, Len(a)) = a

\* group h is group g, or g with more constituents after its own
Extends(g, h) ==
    /\ h.type = g.type
    /\ h.timestamp = g.timestamp
    /\ Prefix(g.blocks, h.blocks)
    /\ Prefix(g.text, h.text)

PrefixStable(GP, G) ==
    /\ Len(GP) <= Len(G)
    /\ \A i \in 1..(Len(GP) - 1) : G[i] = GP[i]
    /\ Len(GP) > 0 => Extends(GP[Len(GP)], G[Len(GP)])

\* C11: grouping is deterministic and prefix-stable. The groups a parse call returned
\* for a block list are the groups of that list computed again; and for every block
\* list P and extension N (here: every two prefixes P and P ++ N of the parser's
\* block list), every group of group(P) but the last is the group of group(P ++ N)
\* at the same position (same id, channel, constituents), and the last group of
\* group(P) has in group(P ++ N) the same channel and start, and constituents that
\* extend its own.
C11_GroupingPrefixStable ==
    /\ (calls > 0 /\ ret.contentBlocks = parser.contentBlocks) =>
            ret.groupedContentBlocks = groupConsecutiveBlocks(parser.contentBlocks)
    /\ \A m \in 0..Len(parser.contentBlocks) : \A k \in 0..m :
            PrefixStable(groupConsecutiveBlocks(SubSeq(parser.contentBlocks, 1, k)),
                         groupConsecutiveBlocks(SubSeq(parser.contentBlocks, 1, m)))

\* a list of a merged group followed by a group of the other channel, created at
\* different times
C11_Witness ==
    /\ Len(parser.contentBlocks) >= 3
    /\ parser.contentBlocks[1].type = parser.contentBlocks[2].type
    /\ parser.contentBlocks[2].type # parser.contentBlocks[3].type
    /\ parser.contentBlocks[1].timestamp < parser.contentBlocks[3].timestamp
    /\ ret.contentBlocks = parser.contentBlocks
    /\ Len(ret.groupedContentBlocks) = 2
    /\ ret.groupedContentBlocks[1].isGrouped

\* the number an id `${type}-${n}` ends with; a record opens at most two blocks
Suffix(block) == CHOOSE n \in 0..(2 * calls) : ToString(n) = block.id[3]

\* C12: in every state of a parser, reset or not, the ids of its content blocks are
\* pairwise distinct, the numbers they end with strictly increase with the position
\* in the list, for reasoning and narrative blocks alike, and the block counter is
\* the number of blocks in the list.
C12_BlockIdsIncrease ==
    /\ parser.blockCounter = Len(parser.contentBlocks)
    /\ \A j \in 1..Len(parser.contentBlocks) : \A i \in 1..(j - 1) :
          /\ parser.contentBlocks[i].id # parser.contentBlocks[j].id
          /\ Suffix(parser.contentBlocks[i]) < Suffix(parser.contentBlocks[j])

\* reasoning and narrative blocks in one list, made by a block start and by the
\* bare channel event
C12_Witness ==
    /\ Len(parser.contentBlocks) >= 3
    /\ \E i, j \in 1..Len(parser.contentBlocks) :
          /\ parser.contentBlocks[i].type = "thinking"
          /\ parser.contentBlocks[j].type = "text"
          /\ i < j
    /\ chunk = Envelope(Lines(<<Event("text"), Data(Quote(<<"b">>))>>))
    /\ parser.contentBlocks[Len(parser.contentBlocks)].content = <<"b">>

-----------------------------------------------------------------------------
(* Properties of execution ids and of the merge (SpecLedger) *)

\* every record of list L is in list M at its position, with its id
IdsKept(L, M) ==
    /\ Len(M) >= Len(L)
    /\ \A i \in 1..Len(L) : M[i].id = L[i].id

\* C13: an execution record keeps its id for its whole life. No step of the chat
\* component (a merge of what a parse call returned, a query edit, a resume) changes
\* the id of an entry of the ledger, and no parse call (a tool output, an
\* interruption) changes the id of a record of the parser's execution list.
C13_IdsPermanent ==
    [][/\ IdsKept(ledger, ledger')
       /\ calls' = calls + 1 => IdsKept(parser.sqlExecutions, parser'.sqlExecutions)]_vars

\* an interrupted entry was edited, resumed, and its output was applied by the
\* parser and merged
C13_Witness ==
    /\ stream.target # NoId
    /\ Len(parser.sqlExecutions) = 1
    /\ parser.sqlExecutions[1].id = stream.target
    /\ parser.sqlExecutions[1].status = "completed"
    /\ \E i \in 1..Len(ledger) :
          /\ ledger[i].id = stream.target
          /\ ledger[i].query = EditedQuery
          /\ ledger[i].status = "completed"

\* the purpose of the entry with the delta's id, after the delta alone was merged
PurposeAfter(L, d, f) == Read(mergeSqlExecutions(L, <<d>>, f)[findIndex(L, d.id)].purpose)

FirstThreadId(a, b, c) == IF Truthy(a) THEN a ELSE IF Truthy(b) THEN b ELSE c

\* list M is list L but for position at
SameButAt(L, M, at) ==
    /\ Len(M) >= Len(L)
    /\ \A j \in 1..Len(L) : j # at => M[j] = L[j]

\* C15: after a delta is merged, alone, into the ledger with a fallback thread id,
\* an entry that had the delta's id has the thread id it had if it had one,
\* otherwise the delta's, otherwise the fallback, and the ledger is as long as
\* before; a delta with an id the ledger lacks is appended at the end, with its own
\* thread id or else the fallback, and with its purpose as originalPurpose; every
\* other entry is as before, at its position. The deltas are those the parser
\* returned, as returned (they carry no thread id) and with a thread id of their own.
C15_ThreadIdPrecedence ==
    [][\A k \in 1..Len(ret'.sqlExecutions), f \in Fallbacks, t \in {JAbsent, ResumeThread} :
          calls' = calls + 1 =>
              LET merged(L, d, M, at) ==
                      IF at # 0
                      THEN /\ Len(M) = Len(L)
                           /\ SameButAt(L, M, at)
                           /\ M[at].id = d.id
                           /\ Read(M[at].threadId) =
                                  FirstThreadId(Read(L[at].threadId), Read(d.threadId), f)
                      ELSE /\ Len(M) = Len(L) + 1
                           /\ SameButAt(L, M, 0)
                           /\ M[Len(M)].id = d.id
                           /\ Read(M[Len(M)].threadId) =
                                  FirstThreadId(Read(d.threadId), f, f)
                           /\ Read(M[Len(M)].originalPurpose) = Read(d.purpose)
                  delta(d) ==
                      merged(ledger, d, mergeSqlExecutions(ledger, <<d>>, f),
                             findIndex(ledger, d.id))
              IN  delta([ret'.sqlExecutions[k] EXCEPT !.threadId = t])]_vars

\* a batch whose first delta matched an entry and whose second was appended
C15_Witness ==
    /\ calls = 2
    /\ Len(ret.sqlExecutions) = 2
    /\ Len(ledger) = 2
    /\ ledger[1].status = "executing"
    /\ ledger[1].threadId = ChatThread
    /\ ledger[2].status = "completed"
    /\ ledger[2].threadId = ChatThread
    /\ ledger[2].originalPurpose = Read(ret.sqlExecutions[2].purpose)

-----------------------------------------------------------------------------
(* Properties of the sentinel and of malformed records (SpecBlocks) *)

\* a record whose first line is the sentinel and whose second is an envelope
AfterDone == {r \in BlockRecords : StartsWith(r, DoneLine \o <<NL>>)}

\* what a parse call may not change once the stream has ended
StreamState(p) ==
    <<p.contentBlocks, p.currentBlockType, p.currentToolInput, p.currentToolOutput,
      p.sqlExecutions>>

\* C16 as stated: within a parse call, once a line that equals `data: [DONE]` after
\* trimming is met, no later line of that call changes the content blocks, the
\* channel state, the tool buffers or the execution list.
C16_NothingAfterDone ==
    [][(calls' = calls + 1 /\ chunk' \in AfterDone) =>
           StreamState(parser') = StreamState(parser)]_vars

\* a record of one data line that is no JSON, and one of that line followed by a
\* fragment
Malformed == Envelope(Lines(<<Data(OutBad)>>))
MalformedThenFragment == Envelope(Lines(<<Data(OutBad), Data(Quote(<<"b">>))>>))

ChannelOpen(p) == p.currentBlockType \in {"thinking", "text"}

\* parser q is parser p but for the fragment, added to the open block
FragmentAdded(p, q, frag) ==
    /\ q.currentBlockType = p.currentBlockType
    /\ q.currentBlock = p.currentBlock
    /\ q.sqlExecutions = p.sqlExecutions
    /\ Len(q.contentBlocks) = Len(p.contentBlocks)
    /\ \A i \in 1..Len(p.contentBlocks) :
          q.contentBlocks[i] =
              IF i # p.currentBlock THEN p.contentBlocks[i]
              ELSE [p.contentBlocks[i] EXCEPT
                       !.content = IF p.currentBlockType = "thinking"
                                   THEN p.currentThinkingContent \o frag
                                   ELSE @ \o frag]
    /\ q.currentThinkingContent =
           IF p.currentBlockType = "thinking" THEN p.currentThinkingContent \o frag
           ELSE p.currentThinkingContent

\* C17: a parse call that reads a data line whose payload is no JSON, while a
\* reasoning or narrative channel is open, returns (no fault), and leaves every
\* content block, the accumulators, the execution list and the open channel as they
\* were; a fragment that follows the line in the same call, or comes in a later
\* call, is added to the open block as if the line had not been there.
C17_MalformedDataSkipped ==
    [][(calls' = calls + 1 /\ ChannelOpen(parser)) =>
           /\ chunk' = Malformed => FragmentAdded(parser, parser', <<>>)
           /\ chunk' = MalformedThenFragment => FragmentAdded(parser, parser', <<"b">>)]_vars

\* a reasoning block was opened, a malformed line came, and in a later call a
\* malformed line and then a fragment, which is in the block
C17_Witness ==
    /\ calls = 3
    /\ chunk = MalformedThenFragment
    /\ parser.currentBlockType = "thinking"
    /\ parser.currentThinkingContent = <<"x", "b">>
    /\ Len(parser.contentBlocks) = 1
    /\ parser.contentBlocks[1].content = <<"x", "b">>

-----------------------------------------------------------------------------
(* Properties of tool outputs that fail, and of the resume target (Spec) *)

\* the tool-output payloads whose repaired text is no JSON
UnparsableOutputs == {raw \in ToolOutputs : ~JsonParse(repairToolOutput(raw)).ok}

\* list M is list L with one record more: an error record with the id, an empty
\* query and the message, the only record with that id
OneErrorAdded(L, M, id, message) ==
    /\ Len(M) = Len(L) + 1
    /\ SubSeq(M, 1, Len(L)) = L
    /\ M[Len(M)].id = id
    /\ M[Len(M)].query = <<>>
    /\ M[Len(M)].status = "error"
    /\ M[Len(M)].error = message
    /\ Cardinality({i \in 1..Len(M) : M[i].id = id}) = 1

\* list M is list L but for the record at the position, which went to error with
\* the message and kept every other field
ErrorAt(L, M, at, message) ==
    M = [L EXCEPT ![at] = [@ EXCEPT !.status = "error", !.error = message]]

\* C18: when a tool-output block closes with an execution id bound (the current id,
\* or else the resume target) and its repaired buffer is no JSON, the parse call
\* returns, and the record with that id has status "error" and the message "Failed
\* to parse SQL output response": a record that was in the list keeps its id, query
\* and purpose and no record is added; when the list had no record with the id,
\* exactly one record, with the id and an empty query, is added. A tool-input block
\* that comes in the next call is processed: it adds its executing record.
C18_UnparsableOutputIsError ==
    [][/\ \A raw \in UnparsableOutputs :
            (Parsed(OutputRecord[raw]) /\ BoundId(parser) # NoId) =>
                LET failed(L, M, id, at, message) ==
                        /\ at # 0 => ErrorAt(L, M, at, message)
                        /\ at = 0 => OneErrorAdded(L, M, id, message)
                    record(id) ==
                        failed(parser.sqlExecutions, parser'.sqlExecutions, id,
                               findIndex(parser.sqlExecutions, id),
                               JStr(<<"Failed to parse SQL output response">>))
                IN  record(BoundId(parser))
       /\ \A raw \in UnparsableOutputs, doc \in SqlInputs :
            (Parsed(InputRecord[doc]) /\ chunk = OutputRecord[raw]) =>
                /\ Len(parser'.sqlExecutions) = Len(parser.sqlExecutions) + 1
                /\ parser'.sqlExecutions[Len(parser'.sqlExecutions)].status = "executing"
                /\ parser'.sqlExecutions[Len(parser'.sqlExecutions)].query
                       = Get(Payload(doc), <<"query">>).s]_vars

\* an unparsable output came for the resume target, of which the list had no
\* record, and another for the record of a tool call
C18_Witness ==
    /\ chunk \in {OutputRecord[raw] : raw \in UnparsableOutputs}
    /\ Len(parser.sqlExecutions) = 2
    /\ parser.sqlExecutions[1].id = parser.resumeTargetSqlId
    /\ parser.sqlExecutions[1].query = <<>>
    /\ parser.sqlExecutions[2].id = parser.currentSqlId
    /\ parser.sqlExecutions[2].query = SelectOne
    /\ \A i \in 1..2 :
          /\ parser.sqlExecutions[i].status = "error"
          /\ parser.sqlExecutions[i].error = JStr(<<"Failed to parse SQL output response">>)

\* the status a record takes from a tool-output payload: error when the repaired
\* text is no JSON or carries a truthy error field
StatusOf ==
    [raw \in ToolOutputs |->
        IF raw \in UnparsableOutputs THEN "error"
        ELSE IF Truthy(Get(JsonParse(repairToolOutput(raw)).val, <<"error">>)) THEN "error"
        ELSE "completed"]

\* the output was applied to the id: list M is list L with the first record of that
\* id updated (it keeps its id and query), or, when L has none, with exactly one
\* record more, of that id, with an empty query and the status
AppliedTo(L, M, id, at, status) ==
    /\ at # 0 =>
          /\ Len(M) = Len(L)
          /\ \A i \in 1..Len(L) : i # at => M[i] = L[i]
          /\ M[at].id = id
          /\ M[at].query = L[at].query
          /\ M[at].status = status
    /\ at = 0 =>
          /\ Len(M) = Len(L) + 1
          /\ SubSeq(M, 1, Len(L)) = L
          /\ M[Len(M)].id = id
          /\ M[Len(M)].query = <<>>
          /\ M[Len(M)].status = status
          /\ Cardinality({i \in 1..Len(M) : M[i].id = id}) = 1

\* C19: in a parser on which a resume target R was set, a tool-output block that
\* closes while no execution id is bound is applied to R: R is the bound id after
\* it, and when the list has no record with id R exactly one record with id R, an
\* empty query and the status the payload gives ("error" for a truthy error field
\* or an unparsable payload, "completed" otherwise) is appended. While an execution
\* id is bound the output is applied to that id, not to R.
C19_ResumeTargetBinding ==
    [][\A raw \in ToolOutputs :
          (Parsed(OutputRecord[raw]) /\ parser.resumeTargetSqlId # NoId) =>
              LET applied(id) ==
                      /\ parser'.currentSqlId = id
                      /\ AppliedTo(parser.sqlExecutions, parser'.sqlExecutions, id,
                                   findIndex(parser.sqlExecutions, id), StatusOf[raw])
              IN  applied(IF parser.currentSqlId = NoId THEN parser.resumeTargetSqlId
                          ELSE parser.currentSqlId)]_vars

\* the first call of a parser with a resume target closed a tool-output block: the
\* list holds the one record of the target
C19_Witness ==
    /\ calls = 1
    /\ chunk \in {OutputRecord[raw] : raw \in ToolOutputs}
    /\ parser.resumeTargetSqlId # NoId
    /\ parser.currentSqlId = parser.resumeTargetSqlId
    /\ Len(parser.sqlExecutions) = 1
    /\ parser.sqlExecutions[1].id = parser.resumeTargetSqlId
    /\ parser.sqlExecutions[1].query = <<>>
    /\ parser.sqlExecutions[1].status = "completed"

-----------------------------------------------------------------------------
(* Properties of the stream drivers (SpecDriver) *)

\* what the driver of a stream did so far, in order
LogOf(st) == IF st = NoStream THEN <<>> ELSE st.log

\* the positions of the log at which a parse call returned isInterrupted = true
InterruptedAt(log) == {i \in 1..Len(log) : log[i].interrupted}

\* C20: after a parse call returns isInterrupted = true, the driver calls onChunk
\* once for that result, then onComplete once, and does nothing more for that
\* stream: no parseChunk, no onChunk, no onError, no read of the transport, even
\* when the records it has read hold further complete records. In every state the
\* log ends with that parse call, its onChunk and its onComplete, the stream is no
\* longer active, and no step changes the parser, the count of parse calls, the
\* transport or the log after that.
C20_DriverStopsOnInterrupt ==
    [][/\ \A i \in InterruptedAt(LogOf(stream')) :
            /\ Len(LogOf(stream')) = i + 2
            /\ LogOf(stream')[i + 1].op = "onChunk"
            /\ LogOf(stream')[i + 2].op = "onComplete"
            /\ ~stream'.active
       /\ InterruptedAt(LogOf(stream)) # {} =>
            UNCHANGED <<stream, parser, calls, pending>>]_vars

\* one read gave the whole transport, whose second record is an interruption and
\* whose third is a complete record: two parse calls were made
C20_Witness ==
    /\ stream # NoStream
    /\ ~stream.active
    /\ pending = <<>>
    /\ stream.buffer = <<>>
    /\ inner = Envelope(Lines(BlockLines(TextBlock(<<<<"a">>>>))))
                  \o RawRecord(<<InterruptEvent, Data(PayloadSql)>>)
                  \o Envelope(Lines(BlockLines(TextBlock(<<<<"b">>>>))))
    /\ calls = 2
    /\ ret.isInterrupted
    /\ ret.text = <<"a">>
    /\ Len(stream.log) = 6
    /\ stream.log[1].op = "read"
    /\ stream.log[6].op = "onComplete"

\* the positions of the log at which a terminal callback was called
TerminalAt(log) == {i \in 1..Len(log) : log[i].op \in {"onComplete", "onError"}}

\* a driver that runs has called no terminal callback; one that ended has called
\* exactly one, as the last thing it did, and onComplete if it was interrupted
WellEnded(st) ==
    /\ (st = NoStream \/ st.active) => TerminalAt(LogOf(st)) = {}
    /\ (st # NoStream /\ ~st.active) =>
          /\ TerminalAt(LogOf(st)) = {Len(LogOf(st))}
          /\ InterruptedAt(LogOf(st)) # {} => LogOf(st)[Len(LogOf(st))].op = "onComplete"

\* C21: every run of a stream driver ends with exactly one terminal callback, the
\* last call it makes (no onChunk follows it): a response that is not OK gives
\* onError alone; a read that fails gives onError, and leaves what the parser
\* returned before as it was; the end of the stream and an interruption give
\* onComplete. What the driver did before is never taken back.
C21_OneTerminalCallback ==
    [][/\ Prefix(LogOf(stream), LogOf(stream'))
       /\ WellEnded(stream')
       /\ (stream = NoStream /\ ~stream'.active) =>
              LogOf(stream') = <<[op |-> "onError", interrupted |-> FALSE]>>
       /\ (stream # NoStream /\ LogOf(stream')[Len(LogOf(stream'))].op = "onError") =>
              /\ LogOf(stream') = LogOf(stream)
                                     \o <<[op |-> "read", interrupted |-> FALSE],
                                          [op |-> "onError", interrupted |-> FALSE]>>
              /\ UNCHANGED <<parser, ret, calls>>
       /\ (stream # NoStream /\ pending = <<>> /\ pending' = <<>>
              /\ LogOf(stream') # LogOf(stream)) =>
              LogOf(stream')[Len(LogOf(stream'))].op \in {"onComplete", "onError"}]_vars

\* a read failed after a record was parsed and delivered: onError is the one
\* terminal callback, and the text returned before stands
C21_Witness ==
    /\ stream # NoStream
    /\ ~stream.active
    /\ calls >= 1
    /\ ret.text = <<"a">>
    /\ Len(stream.log) >= 5
    /\ stream.log[Len(stream.log)].op = "onError"
    /\ \E i \in 1..Len(stream.log) : stream.log[i].op = "onChunk"

-----------------------------------------------------------------------------
(* Properties of the parser between resets, of block ends and of interruptions *)

\* the parser holds what the last call returned: it was not reset since, or the
\* reset found nothing to clear
AsReturned ==
    /\ calls > 0
    /\ parser.contentBlocks = ret.contentBlocks
    /\ parser.sqlExecutions = ret.sqlExecutions
    /\ parser.isInterrupted = ret.isInterrupted

\* C22: between resets, what parse calls return is cumulative. A call on a parser
\* that holds what the call before returned returns a block list and an execution
\* list that have every entry of the lists returned before at its position, with its
\* id, and returns isInterrupted true if the call before did.
C22_ResultsCumulative ==
    [][(calls' = calls + 1 /\ AsReturned) =>
           /\ IdsKept(ret.contentBlocks, ret'.contentBlocks)
           /\ IdsKept(ret.sqlExecutions, ret'.sqlExecutions)
           /\ ret.isInterrupted => ret'.isInterrupted]_vars

\* a third call, of a narrative block, on a parser interrupted by the second: the
\* lists grew over the calls and the interruption is still returned
C22_Witness ==
    /\ calls = 3
    /\ AsReturned
    /\ ret.isInterrupted
    /\ Len(ret.contentBlocks) >= 2
    /\ Len(ret.sqlExecutions) >= 2
    /\ chunk = Envelope(Lines(BlockLines(TextBlock(<<<<"a">>>>))))

\* a block end that no type line follows, then a narrative block opened and its
\* first fragment
EndThenBlock ==
    Envelope(Lines(<<Event("block-end")>> \o BlockStart("text") \o <<Data(Quote(<<"a">>))>>))

\* C23 as stated: after a block end, exactly the one record that follows it is
\* discarded, whatever it is, and the suppression is then over. For a call of a
\* block end followed at once by a block start and a fragment: when the call
\* returns, the parser suppresses nothing more, and either the block start was the
\* record discarded (no block was opened) or the block was opened and has its first
\* fragment.
C23_SuppressionSingleShot ==
    [][(calls' = calls + 1 /\ chunk' = EndThenBlock) =>
           /\ ~parser'.justEndedBlock
           /\ \/ parser'.contentBlocks = onBlockEnd(parser, clock).contentBlocks
              \/ /\ Len(parser'.contentBlocks) = Len(parser.contentBlocks) + 1
                 /\ parser'.contentBlocks[Len(parser'.contentBlocks)].content = <<"a">>]_vars

\* C24 as stated: the interruption falls back on the tool input only while a
\* tool-input channel is open. A first interruption without a SQL-like payload that
\* arrives while no tool-input channel is open returns no InterruptedQuery and adds
\* or changes no execution record.
C24_FallbackOnlyWhileOpen ==
    [][\A record \in BareInterrupts :
          (/\ Parsed(record)
           /\ ~parser.isInterrupted
           /\ parser.currentBlockType # "tool-input") =>
              /\ ret'.isInterrupted
              /\ ret'.interruptedQuery.isNull
              /\ parser'.sqlExecutions = parser.sqlExecutions]_vars

\* a tool-output block closed before any data line came
EmptyOutput == Envelope(Lines(BlockStart("tool-output") \o BlockEnd("tool-output")))

\* C25 as stated: every close of a tool-output channel with an execution id bound
\* settles that execution, whatever was accumulated, an empty buffer included.
\* After a call that opens and closes a tool-output block without a data line, on a
\* parser (not interrupted) with an id bound, a record with that id exists and is
\* completed or error.
C25_OutputCloseSettles ==
    [][(/\ Parsed(EmptyOutput)
        /\ ~parser.isInterrupted
        /\ BoundId(parser) # NoId) =>
           /\ findIndex(parser'.sqlExecutions, BoundId(parser)) # 0
           /\ parser'.sqlExecutions[findIndex(parser'.sqlExecutions, BoundId(parser))].status
                  \in {"completed", "error"}]_vars

\* a tool-input block with a line `event: ping` before its data line
PingedInput ==
    Envelope(Lines(BlockStart("tool-input") \o <<Event("ping"), Data(Quote(InSql))>>
                       \o BlockEnd("tool-input")))

\* C26 as stated: a record with an event name the parser does not know is skipped
\* in every channel state, so a tool call whose block holds such a record yields
\* the execution it yields without it. A call of a tool-input block with the line
\* `event: ping` in it leaves the execution list and the tool-input buffer as the
\* call of the block without that line leaves them.
C26_UnknownEventSkipped ==
    [][(Parsed(PingedInput) /\ ~parser.isInterrupted) =>
           LET without(r) ==
                   /\ parser'.sqlExecutions = r.p.sqlExecutions
                   /\ parser'.currentToolInput = r.p.currentToolInput
           IN  without(parseChunk([p |-> parser, ids |-> idSeq],
                                  Envelope(Lines(ToolInputBlock(InSql))), clock, clock'))]_vars

-----------------------------------------------------------------------------
(* The life of a ledger entry (SpecLedger) *)

\* C27 as stated: over parse-and-merge steps, edits and resumes, the status of a
\* ledger entry changes only from executing to completed or error, and from
\* interrupted to executing; an entry that is completed or error never becomes
\* interrupted or executing again.
C27_StatusLifecycle ==
    [][\A i \in 1..Len(ledger) :
          \/ ledger'[i].status = ledger[i].status
          \/ /\ ledger[i].status = "executing"
             /\ ledger'[i].status \in {"completed", "error"}
          \/ /\ ledger[i].status = "interrupted"
             /\ ledger'[i].status = "executing"]_vars

-----------------------------------------------------------------------------
(* Interruptions: in an envelope, with a generated id, between envelope lines *)

\* the interruption record as the stream route sends it: the event line and its
\* data line are the content of an envelope line
WrappedInterrupt == Envelope(Lines(<<InterruptEvent, Data(PayloadSql)>>))

\* C28 as stated: when the interruption record and its data line, with a SQL-like
\* value, arrive as inner protocol text in the content of an envelope line, the
\* call returns isInterrupted true and an InterruptedQuery with the id and the
\* value of that data line.
C28_InterruptInEnvelope ==
    [][(Parsed(WrappedInterrupt) /\ ~parser.isInterrupted) =>
           /\ ret'.isInterrupted
           /\ ~ret'.interruptedQuery.isNull
           /\ ret'.interruptedQuery.id = Get(FirstElement(PayloadSql), <<"id">>).s
           /\ ret'.interruptedQuery.query = Get(FirstElement(PayloadSql), <<"value">>).s]_vars

\* the execution list of parser p has an interrupted record with the id and the
\* query of the InterruptedQuery p holds
QueryRecorded(p) ==
    \E i \in 1..Len(p.sqlExecutions) :
        /\ p.sqlExecutions[i].status = "interrupted"
        /\ p.sqlExecutions[i].id = p.interruptedQuery.id
        /\ p.sqlExecutions[i].query = p.interruptedQuery.query

\* C29 as stated: whenever the parser holds an InterruptedQuery, its execution list
\* has an interrupted record with that id and query, for an id the payload supplies
\* and for a generated one. Here: when the call of a first interruption whose
\* payload has a SQL-like value, with an id or without, returns.
C29_QueryHasItsRecord ==
    [][\A payload \in {q \in InterruptPayloads : hasSqlQuery(FirstElement(q), <<"value">>)} :
          (Parsed(InterruptRecord[payload]) /\ ~parser.isInterrupted) =>
              /\ ~parser'.interruptedQuery.isNull
              /\ QueryRecorded(parser')]_vars

\* the envelope line of a narrative block a, and a chunk of that line, an
\* interruption with its payload line, and the envelope line of a narrative block b
BeforeInterrupt == Envelope(Lines(BlockLines(TextBlock(<<<<"a">>>>))))
InterruptBetween ==
    BeforeInterrupt \o RawRecord(<<InterruptEvent, Data(PayloadSql)>>)
        \o Envelope(Lines(BlockLines(TextBlock(<<<<"b">>>>))))

\* C30: once an interruption line is met in a parse call, the lines after it in
\* that call change no content block, channel state or tool buffer, and the lines
\* before it were processed as usual. A call of an envelope line, an interruption
\* and a second envelope line returns isInterrupted true and leaves the content
\* blocks, the returned text, the open channel and block, and the tool buffers as
\* the call of the first envelope line alone leaves them.
C30_LinesAfterInterruptIgnored ==
    [][Parsed(InterruptBetween) =>
           LET asUsual(r) ==
                   /\ ret'.isInterrupted
                   /\ parser'.contentBlocks = r.p.contentBlocks
                   /\ ret'.contentBlocks = r.ret.contentBlocks
                   /\ ret'.text = r.ret.text
                   /\ parser'.currentBlockType = r.p.currentBlockType
                   /\ parser'.currentBlock = r.p.currentBlock
                   /\ parser'.currentToolInput = r.p.currentToolInput
                   /\ parser'.currentToolOutput = r.p.currentToolOutput
           IN  asUsual(parseChunk([p |-> parser, ids |-> idSeq], BeforeInterrupt,
                                  clock, clock'))]_vars

\* the call on a new parser: block a was made and is the text returned, the
\* interruption was read with its payload, and block b was not made
C30_Witness ==
    /\ calls = 1
    /\ chunk = InterruptBetween
    /\ ret.isInterrupted
    /\ ret.interruptedQuery.id = <<"q1">>
    /\ ret.text = <<"a">>
    /\ Len(ret.contentBlocks) = 1
    /\ ret.contentBlocks[1].content = <<"a">>

-----------------------------------------------------------------------------
(* Properties of content blocks, of the completion event and of the legacy views *)

\* the block a reasoning or narrative channel of parser p has open (0: none)
OpenBlock(p) == IF ChannelOpen(p) THEN p.currentBlock ELSE NoBlock

\* content d is content c with text appended, or, for a reasoning block that was
\* closed, that with the blanks at both ends trimmed off
AppendedTo(c, d, trimmed) ==
    \/ Prefix(c, d)
    \/ trimmed /\ (Prefix(TrimStart(c), d) \/ d = Trim(c))

\* C31: a content block is immutable once its channel was closed or left. Over a
\* parse call, every block that was not the open block of a reasoning or narrative
\* channel when the call began is unchanged; the open block keeps its id and
\* channel, and its content after the call is its content before with text
\* appended (trimmed, for a reasoning block the call closed). In every state, the
\* open block of a reasoning or narrative channel is the last of the list and is
\* of that channel.
C31_ClosedBlocksImmutable ==
    [][/\ OpenBlock(parser') # NoBlock =>
              /\ OpenBlock(parser') = Len(parser'.contentBlocks)
              /\ parser'.contentBlocks[OpenBlock(parser')].type = parser'.currentBlockType
       /\ calls' = calls + 1 =>
              /\ Len(parser'.contentBlocks) >= Len(parser.contentBlocks)
              /\ \A i \in 1..Len(parser.contentBlocks) :
                    IF i # OpenBlock(parser)
                    THEN parser'.contentBlocks[i] = parser.contentBlocks[i]
                    ELSE /\ parser'.contentBlocks[i].id = parser.contentBlocks[i].id
                         /\ parser'.contentBlocks[i].type = parser.contentBlocks[i].type
                         /\ AppendedTo(parser.contentBlocks[i].content,
                                       parser'.contentBlocks[i].content,
                                       /\ parser.contentBlocks[i].type = "thinking"
                                       /\ OpenBlock(parser') # i)]_vars

\* a reasoning block with blanks around its text was closed by a later call, which
\* trimmed it, and a fragment that came after the close changed nothing
C31_Witness ==
    /\ calls = 3
    /\ chunk = Envelope(Lines(<<Data(OutBad), Data(Quote(<<"b">>))>>))
    /\ OpenBlock(parser) = NoBlock
    /\ Len(parser.contentBlocks) = 1
    /\ parser.contentBlocks[1].type = "thinking"
    /\ parser.contentBlocks[1].content = <<"y">>

\* the records that are a whole tool-input block
InputBlocks ==
    {Envelope(Lines(ToolInputBlock(doc))) : doc \in {InSql, InProse, OutPlain}}
        \cup {PingedInput}

\* C32: a call that opens and closes a tool-input block whose gathered buffer is
\* no JSON, or has no query field, or has a query that is not SQL-like, returns
\* (no fault) with the execution list as it was, no record made and none changed,
\* with hasNewSql false, and with no channel open.
C32_RejectedInputLeavesList ==
    [][(/\ calls' = calls + 1
        /\ chunk' \in InputBlocks
        /\ ~BufferedSql(parser')) =>
           /\ parser'.sqlExecutions = parser.sqlExecutions
           /\ ret'.sqlExecutions = parser.sqlExecutions
           /\ ~ret'.hasNewSql
           /\ parser'.currentBlockType = NoType
           /\ parser'.currentBlock = NoBlock]_vars

\* the third call closed a block whose buffer is prose, has no query or is no
\* JSON, after a call that made a record: the list has that record only
C32_Witness ==
    /\ calls = 3
    /\ chunk \in InputBlocks
    /\ ~BufferedSql(parser)
    /\ parser.currentToolInput \in {InProse, OutPlain, Event("ping") \o InSql}
    /\ parser.currentSqlId # NoId
    /\ ~ret.hasNewSql
    /\ Len(ret.sqlExecutions) = 1
    /\ ret.sqlExecutions[1].status = "executing"

\* the completion event and a fragment after it, in one envelope
CompleteThenData == Envelope(Lines(<<Event("complete"), Data(Quote(<<"b">>))>>))

\* C33: after a completion record no channel is open, whatever was open before. A
\* call of the completion event followed by a fragment leaves no channel and no
\* block open, leaves the execution list as it was, and leaves every content block
\* as it was, but for the block of a reasoning channel that was open, whose content
\* is the gathered text, trimmed: the fragment after the event is ignored. The
\* same call with a bare tool-input or tool-output event before the completion
\* event (a tool channel is open when it comes) leaves no channel open, and the
\* blocks and the execution list as they were. A fragment that comes in a later
\* call while no channel is open is ignored too.
C33_CompleteClosesChannel ==
    [][/\ Parsed(CompleteThenData) =>
              /\ parser'.currentBlockType = NoType
              /\ parser'.currentBlock = NoBlock
              /\ parser'.sqlExecutions = parser.sqlExecutions
              /\ Len(parser'.contentBlocks) = Len(parser.contentBlocks)
              /\ \A i \in 1..Len(parser.contentBlocks) :
                    parser'.contentBlocks[i] =
                        IF i = OpenBlock(parser) /\ parser.currentBlockType = "thinking"
                        THEN [parser.contentBlocks[i] EXCEPT
                                 !.content = Trim(parser.currentThinkingContent)]
                        ELSE parser.contentBlocks[i]
              /\ \A tool \in {"tool-input", "tool-output"} :
                    LET closed(r) ==
                            /\ r.p.currentBlockType = NoType
                            /\ r.p.currentBlock = NoBlock
                            /\ r.p.sqlExecutions = parser.sqlExecutions
                            /\ r.p.contentBlocks = parser.contentBlocks
                    IN  closed(parseChunk([p |-> parser, ids |-> idSeq],
                                          Envelope(Lines(<<Event(tool), Event("complete"),
                                                           Data(Quote(<<"b">>))>>)),
                                          clock, clock'))
       /\ (Parsed(MalformedThenFragment) /\ parser.currentBlockType = NoType) =>
              /\ parser'.contentBlocks = parser.contentBlocks
              /\ parser'.sqlExecutions = parser.sqlExecutions
              /\ parser'.currentBlockType = NoType]_vars

\* the completion event came while a reasoning block with blanks around its text
\* was open: the block is trimmed, no channel is open, and the fragment after the
\* event is in no block
C33_Witness ==
    /\ calls = 2
    /\ chunk = CompleteThenData
    /\ parser.currentBlockType = NoType
    /\ Len(parser.contentBlocks) = 1
    /\ parser.contentBlocks[1].type = "thinking"
    /\ parser.contentBlocks[1].content = <<"y">>
    /\ ret.text = <<>>

-----------------------------------------------------------------------------
(* The driver's reads (SpecDriver) *)

\* the records of the transports, each ended by a blank line
TransportRecords ==
    {<<Envelope(Lines(BlockLines(TextBlock(<<<<"a">>>>)))),
       RawRecord(<<InterruptEvent, Data(PayloadSql)>>),
       Envelope(Lines(BlockLines(TextBlock(<<<<"b">>>>))))>>,
     <<Envelope(Lines(ToolInputBlock(InSql))),
       RawRecord(<<InterruptEvent>>),
       Envelope(Lines(ToolOutputBlock(OutRows)))>>,
     <<Envelope(Lines(ToolOutputBlock(OutRows))),
       Envelope(Lines(BlockLines(TextBlock(<<<<"a">>>>))))>>}

\* the records of the transport text
RecordsOf(text) == CHOOSE recs \in TransportRecords : Join(recs) = text

\* the number of records of recs that are whole within the first n atoms
WholeIn(recs, n) ==
    Cardinality({k \in 1..Len(recs) : Len(Join(SubSeq(recs, 1, k))) <= n})

\* the records handed one by one to the parser of e, up to the first that
\* interrupts it
RECURSIVE HandedOver(_, _, _)
HandedOver(e, recs, k) ==
    LET called(r) ==
            HandedOver([p |-> r.p, ids |-> r.ids, ret |-> r.ret, calls |-> e.calls + 1],
                       recs, k + 1)
    IN  IF k > Len(recs) \/ e.ret.isInterrupted THEN e
        ELSE called(parseChunk([p |-> e.p, ids |-> e.ids], recs[k], 0, 0))

\* C34: the records the driver passes to parseChunk do not depend on how the
\* transport text is cut into reads. In every state of a driver, whatever reads
\* brought the text consumed so far (cuts inside a blank-line separator included),
\* the parser was called once for each record that is whole in that text, ended by
\* its blank line, in order, up to the first one that interrupted it, and for
\* nothing else: the parser, what it returned last, the number of calls and the
\* last record passed are those of the records handed over one by one, and the
\* part of a record consumed so far is kept in the buffer.
C34_ReadChunkingInvariance ==
    (stream # NoStream /\ inner # <<>>) =>
        LET consumed == Len(inner) - Len(pending)
            asHanded(recs, whole, e) ==
                /\ parser = e.p
                /\ ret = e.ret
                /\ calls = e.calls
                /\ calls > 0 => chunk = recs[calls]
                /\ Cardinality({i \in 1..Len(stream.log) : stream.log[i].op = "parseChunk"})
                       = calls
                /\ ~e.ret.isInterrupted =>
                       stream.buffer = SubSeq(inner, Len(Join(SubSeq(recs, 1, whole))) + 1,
                                              consumed)
            handed(recs, whole) ==
                asHanded(recs, whole,
                         HandedOver([p |-> IF stream.target = NoId THEN NewParser
                                           ELSE setResumeTargetSqlId(NewParser, stream.target),
                                     ids |-> 0, ret |-> NoRet, calls |-> 0],
                                    SubSeq(recs, 1, whole), 1))
            records(recs) == handed(recs, WholeIn(recs, consumed))
        IN  records(RecordsOf(inner))

\* a read ended between the two line ends of the separator after the first
\* record: the record was not passed, and is kept in the buffer without its last
\* line end
C34_Witness ==
    /\ stream # NoStream
    /\ stream.active
    /\ inner # <<>>
    /\ calls = 0
    /\ Len(stream.log) = 1
    /\ stream.log[1].op = "read"
    /\ stream.buffer \o <<NL>> = RecordsOf(inner)[1]
    /\ pending[1] = NL

-----------------------------------------------------------------------------
(* Grouping and the legacy views (SpecBlocks) *)

\* the positions of block list B at which a maximal run of blocks of one channel
\* starts, the start of the k-th run, and its end
RunStarts(B) == {i \in 1..Len(B) : i = 1 \/ B[i].type # B[i - 1].type}
RunStart(B, k) == CHOOSE i \in RunStarts(B) : Cardinality({j \in RunStarts(B) : j < i}) = k - 1
RunEnd(B, k) ==
    IF k = Cardinality(RunStarts(B)) THEN Len(B) ELSE RunStart(B, k + 1) - 1

\* group g is the group of the run of B from position s to position e
GroupOfRun(g, B, s, e) ==
    /\ g.type = B[s].type
    /\ g.isGrouped = (e > s)
    /\ \A i \in s..e : g.timestamp <= B[i].timestamp
    /\ \E i \in s..e : g.timestamp = B[i].timestamp
    /\ IF g.type = "thinking"
       THEN /\ Len(g.blocks) = e - s + 1
            /\ \A i \in s..e :
                  g.blocks[i - s + 1] = [id |-> B[i].id, content |-> B[i].content,
                                         timestamp |-> B[i].timestamp]
       ELSE g.text = Join([i \in 1..(e - s + 1) |-> B[s + i - 1].content])

\* C35: the groups a parse call returns are exactly the maximal runs of consecutive
\* blocks of one channel of the block list it returns: there is one group for each
\* run, in order; the group has the run's channel, is marked grouped exactly if the
\* run has more than one block, and has the earliest timestamp of the run; a
\* reasoning group lists the blocks of the run with their ids, contents and
\* timestamps, in order, and a narrative group holds their texts, concatenated in
\* order; two groups that follow each other are of different channels.
C35_GroupsAreMaximalRuns ==
    LET runs(B, G) ==
            /\ Len(G) = Cardinality(RunStarts(B))
            /\ \A k \in 1..Len(G) : GroupOfRun(G[k], B, RunStart(B, k), RunEnd(B, k))
            /\ \A k \in 1..(Len(G) - 1) : G[k].type # G[k + 1].type
    IN  runs(ret.contentBlocks, ret.groupedContentBlocks)

\* a reasoning block followed by two narrative blocks: a group of one and a merged
\* group of two
C35_Witness ==
    /\ Len(ret.contentBlocks) = 3
    /\ Len(ret.groupedContentBlocks) = 2
    /\ ret.groupedContentBlocks[1].type = "thinking"
    /\ ~ret.groupedContentBlocks[1].isGrouped
    /\ ret.groupedContentBlocks[2].type = "text"
    /\ ret.groupedContentBlocks[2].isGrouped
    /\ ret.groupedContentBlocks[2].text = <<"a", "b">>

-----------------------------------------------------------------------------
(* The parser's execution list, and reset (Spec) *)

\* C36 as stated: the execution list of a parser never holds two records with the
\* same id, whatever inner records came, an interruption after a tool-input block
\* was closed included. Here: after every call on a parser that was not interrupted
\* before the call.
C36_ParserIdsUnique ==
    [][(calls' = calls + 1 /\ ~parser.isInterrupted) =>
           \A i, j \in 1..Len(parser'.sqlExecutions) :
               i # j => parser'.sqlExecutions[i].id # parser'.sqlExecutions[j].id]_vars

\* C39 as stated: reset returns the parser to its initial state, also when
\* setResumeTargetSqlId was called on it before: after a reset, a parse call
\* returns what the same call returns on a newly constructed parser.
C39_ResetIsNew ==
    [][(parser' = reset(parser) /\ calls' = calls) =>
           \A record \in ToolRecords :
               parseChunk([p |-> parser', ids |-> idSeq], record, clock, clock).ret
                   = parseChunk([p |-> NewParser, ids |-> idSeq], record, clock, clock).ret]_vars

\* the blocks of list B that are of the channel, in list order
OfChannel(B, type) == SelectSeq(B, LAMBDA block : block.type = type)

\* C40: the legacy views a parse call returns agree with the block list it
\* returns: text is the concatenation, in list order, of the contents of all
\* narrative blocks of the list; thinking is the list of all its reasoning blocks,
\* in list order, each with its id, content and timestamp; and the grouped list is
\* groupConsecutiveBlocks of the list.
C40_LegacyViewsAgree ==
    LET agree(narrative, reasoning) ==
            /\ ret.text = Join([i \in 1..Len(narrative) |-> narrative[i].content])
            /\ ret.thinking =
                   [i \in 1..Len(reasoning) |->
                       [id |-> reasoning[i].id, content |-> reasoning[i].content,
                        timestamp |-> reasoning[i].timestamp]]
            /\ ret.groupedContentBlocks = groupConsecutiveBlocks(ret.contentBlocks)
    IN  agree(OfChannel(ret.contentBlocks, "text"), OfChannel(ret.contentBlocks, "thinking"))

\* narrative blocks on both sides of a reasoning block: the text returned is that
\* of both, and the reasoning block is the one of the thinking list
C40_Witness ==
    /\ Len(ret.contentBlocks) = 3
    /\ ret.contentBlocks[1].type = "text"
    /\ ret.contentBlocks[2].type = "thinking"
    /\ ret.contentBlocks[3].type = "text"
    /\ ret.text = <<"a", "b">>
    /\ Len(ret.thinking) = 1
    /\ ret.thinking[1].id = ret.contentBlocks[2].id
    /\ Len(ret.groupedContentBlocks) = 3

-----------------------------------------------------------------------------
(* The resume handler: failure and repeated invocation *)

\* the stream requested last ended in the handler's onError callback
FailedResume ==
    /\ stream # NoStream
    /\ ~stream.active
    /\ stream.log # <<>>
    /\ stream.log[Len(stream.log)] = "onError"

\* C37: once a resumed stream has failed (the response was not OK or a read
\* failed), the execution it resumed is "interrupted" again with an error set in
\* the ledger, and streamingMessageId is null
C37_FailedResumeRollsBack ==
    FailedResume =>
        /\ streamingMessageId = JNull
        /\ \A i \in 1..Len(ledger) :
              ledger[i].id = stream.target =>
                  /\ ledger[i].status = "interrupted"
                  /\ Truthy(Read(ledger[i].error))

\* C38: the handler requests a resume stream only for an execution whose ledger
\* entry is "interrupted" at that moment, so an invocation that follows another
\* one for the same id, the effect of the render not having run in between,
\* requests no second stream
C38_OneResumeStream ==
    [][requests' # requests =>
          \E i \in 1..Len(ledger) :
              /\ ledger[i].id = requests'[Len(requests')]
              /\ ledger[i].status = "interrupted"]_vars

=============================================================================
